---- MODULE Spec2Model ----
(***************************************************************************)
(* Model of avlgo's authenticated trees:                                   *)
(*   avlgo/data_structures/merkle/merkle_tree.py         (MerkleTree)      *)
(*   avlgo/data_structures/merkle/sparse_merkle_tree.py  (SparseMerkleTree)*)
(*   avlgo/data_structures/utils.py                      (BinaryTreeNode)  *)
(* and of two of its other modules:                                        *)
(*   avlgo/data_structures/disjoint_set.py               (DisjointSet)     *)
(*   avlgo/pattern_matching/dueling.py          (search_pattern_in_text)   *)
(*                                                                         *)
(* Byte strings are sequences of atoms.  An atom is either one raw byte    *)
(* <<c>> or one hexdigest block <<hash_alg, preimage>>: the fixed-length   *)
(* output of hash_alg(preimage).hexdigest().encode(), kept symbolic so     *)
(* that the hash is injective (collision resistant) and concatenations of  *)
(* digests decompose uniquely, as fixed-length digests do.                 *)
(***************************************************************************)
EXTENDS Integers, Sequences, FiniteSets, TLC

VARIABLES mt, fed, lastCall, smt, marked, DUMMY_HASHES_POOL, held, ds, joined,
          text, pattern, matches, pc, local_dummy_hashes, returned, stores

vars ==
    <<mt, fed, lastCall, smt, marked, DUMMY_HASHES_POOL, held, ds, joined, text, pattern, matches,
      pc, local_dummy_hashes, returned, stores>>

denseVars == <<mt, fed>>

sparseVars == <<smt, marked, DUMMY_HASHES_POOL>>

disjointSetVars == <<ds, joined>>

duelingVars == <<text, pattern, matches>>

threadVars == <<pc, local_dummy_hashes, returned, stores>>

(***************************************************************************)
(* Bounds                                                                  *)
(***************************************************************************)
\* add_node calls issued on each dense tree
MaxCalls == 3

\* make_set calls issued on the disjoint set
MaxElements == 3

\* longest text and longest pattern handed to search_pattern_in_text
MaxTextLen == 4

MaxPatternLen == 2

\* threads that call _get_dummy_hashes at the same time
MaxThreads == 2

\* the dense tree instances alive at the same time
Trees == {1, 2}

(***************************************************************************)
(* Python values                                                           *)
(***************************************************************************)
\* None, where a byte string is expected (node data, tree_digest)
None == << <<"None">> >>

\* None, where a node reference is expected (parent, left, right, _root)
NoNode == 0

\* no exception was raised
NoExc == "NoExc"

\* a call that raised returns nothing
NoReturn == -1

PyInt(n) == [type |-> "int", val |-> n]

\* the 1-tuple (n,)
PyTuple(n) == [type |-> "tuple", val |-> n]

Max(a, b) == IF b > a THEN b ELSE a

LEFT == 0

RIGHT == 1

opposite(direction) == IF direction = RIGHT THEN LEFT ELSE RIGHT

\* hash_alg(data).hexdigest().encode()
hash(hash_alg, data) == << <<hash_alg, data>> >>

sha256 == "sha256"

md5 == "md5"

b0 == << <<"0">> >>

b1 == << <<"1">> >>

\* payloads handed to add_node: b'0', b'1', and a 128-byte payload that
\* spells out two concatenated digests
Data == {b0, b1, hash(sha256, b0) \o hash(sha256, b1)}

(***************************************************************************)
(* BinaryTreeNode                                                          *)
(***************************************************************************)
child_sibling(heap, self, child) ==
    IF heap[self].left = child THEN [node |-> heap[self].right, exc |-> NoExc]
    ELSE IF heap[self].right = child THEN [node |-> heap[self].left, exc |-> NoExc]
    ELSE [node |-> NoNode, exc |-> "InvalidChildException"]

child_direction(heap, self, child) ==
    IF heap[self].left = child THEN [val |-> LEFT, exc |-> NoExc]
    ELSE IF heap[self].right = child THEN [val |-> RIGHT, exc |-> NoExc]
    ELSE [val |-> LEFT, exc |-> "InvalidChildException"]

direction(heap, self) ==
    IF heap[self].parent = NoNode THEN [val |-> LEFT, exc |-> "AttributeError"]
    ELSE child_direction(heap, heap[self].parent, self)

(***************************************************************************)
(* _MerkleNode.  A dense tree's nodes live in its heap, a sequence of node *)
(* records; a node reference is an index into it.                          *)
(***************************************************************************)
\* faulty variant: the digest is taken of the empty byte string, not of data
_MerkleNode_digest_of_nothing(data, height, leaves_counter, hash_alg, left, right) ==
    [parent |-> NoNode, left |-> left, right |-> right, data |-> data,
     height |-> height, leaves_counter |-> leaves_counter,
     hash_alg |-> hash_alg, data_hash |-> hash(hash_alg, <<>>)]

_MerkleNode(data, height, leaves_counter, hash_alg, left, right) ==
    [parent |-> NoNode, left |-> left, right |-> right, data |-> data,
     height |-> height, leaves_counter |-> leaves_counter,
     hash_alg |-> hash_alg, data_hash |-> hash(hash_alg, data)]

\* returns the heap with the new leaf appended; the leaf is Len of the result
create_leaf(heap, data, hash_alg) ==
    Append(heap, _MerkleNode(data, PyInt(0), PyInt(1), hash_alg, NoNode, NoNode))

\* faulty variant: only the left child is told its parent
_MerkleNode_create_node_left_parent_only(heap, left, right, hash_alg) ==
    IF heap[left].height.type = "tuple" \/ heap[right].height.type = "tuple"
       \/ heap[left].leaves_counter.type = "tuple"
       \/ heap[right].leaves_counter.type = "tuple"
    THEN [heap |-> heap, node |-> NoNode, exc |-> "TypeError"]
    ELSE LET node == Len(heap) + 1
             h1 == Append(heap,
                     _MerkleNode(heap[left].data_hash \o heap[right].data_hash,
                       PyInt(Max(heap[left].height.val, heap[right].height.val) + 1),
                       PyInt(heap[left].leaves_counter.val + heap[right].leaves_counter.val),
                       hash_alg, left, right))
         IN  [heap |-> [h1 EXCEPT ![left].parent = node], node |-> node, exc |-> NoExc]

\* faulty variant: the digest of the new node is stored in its left child too
_MerkleNode_create_node_rehashes_left(heap, left, right, hash_alg) ==
    IF heap[left].height.type = "tuple" \/ heap[right].height.type = "tuple"
       \/ heap[left].leaves_counter.type = "tuple"
       \/ heap[right].leaves_counter.type = "tuple"
    THEN [heap |-> heap, node |-> NoNode, exc |-> "TypeError"]
    ELSE LET node == Len(heap) + 1
             h1 == Append(heap,
                     _MerkleNode(heap[left].data_hash \o heap[right].data_hash,
                       PyInt(Max(heap[left].height.val, heap[right].height.val) + 1),
                       PyInt(heap[left].leaves_counter.val + heap[right].leaves_counter.val),
                       hash_alg, left, right))
         IN  [heap |-> [h1 EXCEPT ![left].parent = node, ![right].parent = node,
                                  ![left].data_hash = h1[node].data_hash],
              node |-> node, exc |-> NoExc]

\* max(left.height, right.height) + 1 and left.leaves_counter +
\* right.leaves_counter raise TypeError as soon as an operand is a tuple
\* (a node's height and leaves_counter become tuples together, so the sum
\* never sees two tuples).  Nothing is constructed when they raise.
_MerkleNode_create_node(heap, left, right, hash_alg) ==
    IF heap[left].height.type = "tuple" \/ heap[right].height.type = "tuple"
       \/ heap[left].leaves_counter.type = "tuple"
       \/ heap[right].leaves_counter.type = "tuple"
    THEN [heap |-> heap, node |-> NoNode, exc |-> "TypeError"]
    ELSE LET node == Len(heap) + 1
             h1 == Append(heap,
                     _MerkleNode(heap[left].data_hash \o heap[right].data_hash,
                       PyInt(Max(heap[left].height.val, heap[right].height.val) + 1),
                       PyInt(heap[left].leaves_counter.val + heap[right].leaves_counter.val),
                       hash_alg, left, right))
         IN  [heap |-> [h1 EXCEPT ![left].parent = node, ![right].parent = node],
              node |-> node, exc |-> NoExc]

\* faulty variant: the children's digests are concatenated right before left
update_child_data_swapped(heap, self) ==
    heap[heap[self].right].data_hash \o heap[heap[self].left].data_hash

\* self.data = self.left.data_hash + self.right.data_hash
update_child_data(heap, self) ==
    heap[heap[self].left].data_hash \o heap[heap[self].right].data_hash

RECURSIVE update_child(_, _, _, _)
\* The trailing commas of lines 229-230 store 1-tuples in height and
\* leaves_counter.
update_child(heap, self, new_child, old_child) ==
    IF self = NoNode THEN [heap |-> heap, exc |-> "AttributeError"]
    ELSE
    LET h1 == IF heap[self].right = old_child
              THEN [heap EXCEPT ![self].right = new_child]
              ELSE [heap EXCEPT ![self].left = new_child]
        l == h1[self].left
        r == h1[self].right
    IN  IF l = NoNode \/ r = NoNode THEN [heap |-> h1, exc |-> "AttributeError"]
        ELSE IF h1[l].height.type = "tuple" \/ h1[r].height.type = "tuple"
        THEN [heap |-> h1, exc |-> "TypeError"]
        ELSE LET h2 == [h1 EXCEPT ![self].height =
                                     PyTuple(Max(h1[l].height.val, h1[r].height.val) + 1)]
             IN  IF h2[l].leaves_counter.type = "tuple" \/ h2[r].leaves_counter.type = "tuple"
                 THEN [heap |-> h2, exc |-> "TypeError"]
                 ELSE LET d == update_child_data(h2, self)
                          h3 == [h2 EXCEPT ![self].leaves_counter =
                                     PyTuple(h2[l].leaves_counter.val + h2[r].leaves_counter.val),
                                   ![self].data = d,
                                   ![self].data_hash = hash(h2[self].hash_alg, d)]
                      IN  IF h3[self].parent # NoNode
                          THEN update_child(h3, h3[self].parent, self, self)
                          ELSE [heap |-> h3, exc |-> NoExc]

\* 2 ** self.height raises TypeError when height is a tuple
capacity(heap, self) ==
    IF heap[self].height.type = "tuple" THEN [val |-> 0, exc |-> "TypeError"]
    ELSE [val |-> 2 ^ heap[self].height.val, exc |-> NoExc]

\* an int never equals a tuple
is_full(heap, self) ==
    LET c == capacity(heap, self)
    IN  [val |-> c.exc = NoExc /\ heap[self].leaves_counter = PyInt(c.val), exc |-> c.exc]

(***************************************************************************)
(* MerkleTree                                                              *)
(***************************************************************************)
MerkleTree(hash_alg) ==
    [_root |-> NoNode, _leaves |-> <<>>, _hash_alg |-> hash_alg, heap |-> <<>>]

is_root(self, node) == self._root = node

\* faulty variant: emptiness is read from state shared by all instances (a tree
\* counts as empty while any instance has no root)
is_empty_shared(self) == \E t \in Trees : mt[t]._root = NoNode

is_empty(self) == self._root = NoNode

MerkleTree_tree_digest(self) == IF ~is_empty(self) THEN self.heap[self._root].data_hash ELSE None

RECURSIVE _find_split_node(_, _)
_find_split_node(heap, node) ==
    IF node = NoNode THEN [node |-> NoNode, exc |-> "AttributeError"]
    ELSE LET f == is_full(heap, node)
         IN  IF f.exc # NoExc THEN [node |-> NoNode, exc |-> f.exc]
             ELSE IF f.val THEN [node |-> node, exc |-> NoExc]
             ELSE _find_split_node(heap, heap[node].right)

\* A leaf built for a call that raises before linking it is unreferenced
\* (garbage) and is left out of the heap.
_split_node(self, split, data) ==
    LET parent_node == self.heap[split].parent
        h1 == create_leaf(self.heap, data, self._hash_alg)
        new_node == Len(h1)
        cn == _MerkleNode_create_node(h1, split, new_node, self._hash_alg)
        merge_node == cn.node
    IN  IF cn.exc # NoExc
        THEN [self |-> self, merge_node |-> NoNode, new_node |-> NoNode, exc |-> cn.exc]
        ELSE
        LET uc1 == IF cn.heap[split].parent # NoNode
                   THEN update_child(cn.heap, cn.heap[split].parent, split, merge_node)
                   ELSE [heap |-> cn.heap, exc |-> NoExc]
        IN  IF uc1.exc # NoExc
            THEN [self |-> [self EXCEPT !.heap = uc1.heap], merge_node |-> NoNode,
                  new_node |-> NoNode, exc |-> uc1.exc]
            ELSE
            LET h3 == [uc1.heap EXCEPT ![split].parent = merge_node]
            IN  IF is_root(self, split)
                THEN [self |-> [self EXCEPT !.heap = h3, !._root = merge_node],
                      merge_node |-> merge_node, new_node |-> new_node, exc |-> NoExc]
                ELSE LET uc2 == update_child(h3, parent_node, merge_node, split)
                     IN  [self |-> [self EXCEPT !.heap = uc2.heap],
                          merge_node |-> IF uc2.exc = NoExc THEN merge_node ELSE NoNode,
                          new_node |-> IF uc2.exc = NoExc THEN new_node ELSE NoNode,
                          exc |-> uc2.exc]

add_node(self, data) ==
    IF is_empty(self)
    THEN LET h1 == create_leaf(self.heap, data, self._hash_alg)
             new_node == Len(h1)
             s1 == [self EXCEPT !.heap = h1, !._root = new_node,
                                !._leaves = Append(@, new_node)]
         IN  [self |-> s1, ret |-> Len(s1._leaves) - 1, exc |-> NoExc]
    ELSE LET fs == _find_split_node(self.heap, self._root)
         IN  IF fs.exc # NoExc THEN [self |-> self, ret |-> NoReturn, exc |-> fs.exc]
             ELSE LET sp == _split_node(self, fs.node, data)
                  IN  IF sp.exc # NoExc
                      THEN [self |-> sp.self, ret |-> NoReturn, exc |-> sp.exc]
                      ELSE LET s1 == [sp.self EXCEPT !._leaves = Append(@, sp.new_node)]
                           IN  [self |-> s1, ret |-> Len(s1._leaves) - 1, exc |-> NoExc]

LeafProof(td, hash_alg, hashes, directions) ==
    [tree_digest |-> td, hash_alg |-> hash_alg, hashes |-> hashes, directions |-> directions]

\* faulty variant: records the direction of the node on the path, not its sibling's
proof_entry_direction_own(heap, node_scanner, sibling_child) == direction(heap, node_scanner)

\* directions.append(sibling_child.direction)
proof_entry_direction(heap, node_scanner, sibling_child) == direction(heap, sibling_child)

RECURSIVE proof_leaf_walk(_, _, _, _)
\* the while loop of proof_leaf
proof_leaf_walk(heap, node_scanner, hashes, directions) ==
    IF heap[node_scanner].parent = NoNode
    THEN [hashes |-> hashes, directions |-> directions, exc |-> NoExc]
    ELSE LET parent == heap[node_scanner].parent
             sib == child_sibling(heap, parent, node_scanner)
         IN  IF sib.exc # NoExc
             THEN [hashes |-> hashes, directions |-> directions, exc |-> sib.exc]
             ELSE IF sib.node = NoNode
             THEN [hashes |-> hashes, directions |-> directions, exc |-> "AttributeError"]
             ELSE LET dir == proof_entry_direction(heap, node_scanner, sib.node)
                  IN  IF dir.exc # NoExc
                      THEN [hashes |-> Append(hashes, heap[sib.node].data_hash),
                            directions |-> directions, exc |-> dir.exc]
                      ELSE proof_leaf_walk(heap, parent,
                             Append(hashes, heap[sib.node].data_hash),
                             Append(directions, dir.val))

\* faulty variant: a negative leaf_id is let through and indexes the list of
\* leaves from its end
proof_leaf_negative_index(self, leaf_id) ==
    IF leaf_id >= Len(self._leaves) \/ -leaf_id > Len(self._leaves)
    THEN [proof |-> LeafProof(None, self._hash_alg, <<>>, <<>>),
          exc |-> IF leaf_id < 0 THEN "IndexError" ELSE "RuntimeError"]
    ELSE LET leaf == IF leaf_id < 0 THEN self._leaves[Len(self._leaves) + leaf_id + 1]
                     ELSE self._leaves[leaf_id + 1]
             w == proof_leaf_walk(self.heap, leaf, <<>>, <<>>)
         IN  [proof |-> LeafProof(MerkleTree_tree_digest(self), self._hash_alg, w.hashes, w.directions),
              exc |-> w.exc]

\* leaf_id is 0-based; a raising call returns no proof
proof_leaf(self, leaf_id) ==
    IF leaf_id < 0 \/ leaf_id >= Len(self._leaves)
    THEN [proof |-> LeafProof(None, self._hash_alg, <<>>, <<>>), exc |-> "RuntimeError"]
    ELSE LET w == proof_leaf_walk(self.heap, self._leaves[leaf_id + 1], <<>>, <<>>)
         IN  [proof |-> LeafProof(MerkleTree_tree_digest(self), self._hash_alg, w.hashes, w.directions),
              exc |-> w.exc]

Min(a, b) == IF a < b THEN a ELSE b

RECURSIVE replay(_, _, _, _, _)
\* the for loop shared by MerkleTree.validate_proof and SparseMerkleTree.validate;
\* zip stops at the shorter list
replay(hash_alg, verification_hash, hashes, directions, i) ==
    IF i > Min(Len(hashes), Len(directions)) THEN verification_hash
    ELSE LET to_hash == IF directions[i] = RIGHT
                        THEN verification_hash \o hashes[i]
                        ELSE hashes[i] \o verification_hash
         IN  replay(hash_alg, hash(hash_alg, to_hash), hashes, directions, i + 1)

\* faulty variant: the replayed chain is never compared with tree_digest
validate_proof_binding_only(td, data, leaf_proof) == leaf_proof.tree_digest = td

\* faulty variant: the chain is replayed before the embedded digest is looked at
validate_proof_run_replay_first(td, data, leaf_proof) ==
    [ret |-> /\ replay(leaf_proof.hash_alg, hash(leaf_proof.hash_alg, data),
                       leaf_proof.hashes, leaf_proof.directions, 1) = td
             /\ leaf_proof.tree_digest = td,
     hash_calls |-> 1 + Min(Len(leaf_proof.hashes), Len(leaf_proof.directions))]

\* one run of validate_proof: the value it returns and the number of times
\* it calls leaf_proof.hash_alg
validate_proof_run(td, data, leaf_proof) ==
    IF leaf_proof.tree_digest # td THEN [ret |-> FALSE, hash_calls |-> 0]
    ELSE [ret |-> replay(leaf_proof.hash_alg, hash(leaf_proof.hash_alg, data),
                         leaf_proof.hashes, leaf_proof.directions, 1) = td,
          hash_calls |-> 1 + Min(Len(leaf_proof.hashes), Len(leaf_proof.directions))]

validate_proof(td, data, leaf_proof) == validate_proof_run(td, data, leaf_proof).ret

(***************************************************************************)
(* SparseMerkleTree.  Its nodes live in a heap too: a function from node   *)
(* references to node records.  The object created as the `direction`      *)
(* child of node n is given the reference 2 * n + direction (the root is   *)
(* 1), so that the heap does not depend on the order of allocation.        *)
(***************************************************************************)
\* hash_alg().block_size, in bytes: the modelled hash function has a 1-byte
\* block and a 1-byte digest (sha256: 64 and 32), which keeps the tree 8
\* levels deep
BlockSize == 1

NON_EXISTING_LEAF_DATA == b0

EXISTING_LEAF_DATA == b1

\* 8 * hash_alg().block_size
get_hash_size(hash_alg) == 8 * BlockSize

\* digests handed to mark, is_marked and proof, as hexadecimal text: the
\* hexdigest of a hash with a 1-byte digest, one hex digit per element
Digests == {<<0, 0>>, <<0, 1>>, <<0, 2>>, <<0, 3>>, <<8, 0>>, <<8, 1>>, <<12, 0>>, <<15, 15>>}

RECURSIVE int16(_)
\* int(digest, 0x10)
int16(digest) ==
    IF digest = <<>> THEN 0
    ELSE 16 * int16(SubSeq(digest, 1, Len(digest) - 1)) + digest[Len(digest)]

RECURSIVE bin(_)
\* bin(digest_value)[2:]
bin(digest_value) ==
    IF digest_value < 2 THEN <<digest_value>>
    ELSE Append(bin(digest_value \div 2), digest_value % 2)

\* '0' * n, empty when n <= 0
zeros(n) == [i \in 1..n |-> 0]

\* lines 162-164 of _tree_navigator
digest_bin(hash_size, digest) ==
    LET b == bin(int16(digest)) IN b \o zeros(hash_size - Len(b))

\* list[i], a negative i counting from the end
PyGetItem(list, i) ==
    IF 0 <= i /\ i < Len(list) THEN [val |-> list[i + 1], exc |-> NoExc]
    ELSE IF i < 0 /\ -i <= Len(list) THEN [val |-> list[Len(list) + i + 1], exc |-> NoExc]
    ELSE [val |-> None, exc |-> "IndexError"]

RECURSIVE generate_dummy_hashes_loop(_, _, _)
generate_dummy_hashes_loop(hash_alg, dummy_hashes, n) ==
    IF n = 0 THEN dummy_hashes
    ELSE LET next_level_dummy == dummy_hashes[Len(dummy_hashes)] \o dummy_hashes[Len(dummy_hashes)]
         IN  generate_dummy_hashes_loop(hash_alg,
                 Append(dummy_hashes, hash(hash_alg, next_level_dummy)), n - 1)

\* one iteration of the loop of _generate_dummy_hashes
generate_dummy_hashes_step(hash_alg, table) ==
    Append(table, hash(hash_alg, table[Len(table)] \o table[Len(table)]))

_generate_dummy_hashes(hash_alg) ==
    generate_dummy_hashes_loop(hash_alg, <<NON_EXISTING_LEAF_DATA>>, get_hash_size(hash_alg))

\* the list _get_dummy_hashes returns from the pool `pool`
_get_dummy_hashes(pool, hash_alg) ==
    IF hash_alg \notin DOMAIN pool THEN _generate_dummy_hashes(hash_alg) ELSE pool[hash_alg]

\* faulty variant: the pool is rebuilt with the table asked for as its only entry
_get_dummy_hashes_pool_forgets_others(pool, hash_alg) ==
    [a \in {hash_alg} |-> IF hash_alg \in DOMAIN pool THEN pool[a]
                          ELSE _generate_dummy_hashes(hash_alg)]

\* the pool _get_dummy_hashes leaves behind
_get_dummy_hashes_pool(pool, hash_alg) ==
    IF hash_alg \notin DOMAIN pool
    THEN [a \in DOMAIN pool \cup {hash_alg} |->
            IF a = hash_alg THEN _generate_dummy_hashes(hash_alg) ELSE pool[a]]
    ELSE pool

_SparseMerkleNode(height, is_dummy, parent, data) ==
    [parent |-> parent, left |-> NoNode, right |-> NoNode, data |-> data,
     height |-> height, is_dummy |-> is_dummy]

\* faulty variant: the root is given the default digest of a single empty leaf
create_root_leaf_default(hash_size, dummy_hashes) ==
    _SparseMerkleNode(hash_size, TRUE, NoNode, PyGetItem(dummy_hashes, 0).val)

create_root(hash_size, dummy_hashes) ==
    _SparseMerkleNode(hash_size, TRUE, NoNode, PyGetItem(dummy_hashes, hash_size).val)

_SparseMerkleNode_create_node(heap, parent, is_dummy, dummy_hashes) ==
    LET height == heap[parent].height - 1
        data == IF is_dummy THEN PyGetItem(dummy_hashes, height)
                ELSE [val |-> None, exc |-> NoExc]
    IN  [node |-> _SparseMerkleNode(height, is_dummy, parent, data.val), exc |-> data.exc]

child(heap, self, dir) == IF dir = LEFT THEN heap[self].left ELSE heap[self].right

is_leaf(heap, self) == heap[self].left = NoNode /\ heap[self].right = NoNode

is_absolute_leaf(heap, self) == heap[self].height = 0

\* faulty variant: marking a leaf that is marked already takes the mark away
_SparseMerkleNode_mark_toggles(heap, self) ==
    IF is_absolute_leaf(heap, self)
    THEN [heap |-> [heap EXCEPT ![self].data = IF heap[self].data = EXISTING_LEAF_DATA
                                               THEN NON_EXISTING_LEAF_DATA
                                               ELSE EXISTING_LEAF_DATA],
          exc |-> NoExc]
    ELSE [heap |-> heap, exc |-> "InternalNodeCannotBeMarkedException"]

_SparseMerkleNode_mark(heap, self) ==
    IF is_absolute_leaf(heap, self)
    THEN [heap |-> [heap EXCEPT ![self].data = EXISTING_LEAF_DATA], exc |-> NoExc]
    ELSE [heap |-> heap, exc |-> "InternalNodeCannotBeMarkedException"]

_SparseMerkleNode_is_marked(heap, self) == heap[self].data = EXISTING_LEAF_DATA

\* faulty variant: the node is rehashed, its ancestors are not
update_data_self_only(heap, self, hash_alg) ==
    IF heap[self].left = NoNode \/ heap[self].right = NoNode
    THEN [heap |-> heap, exc |-> "AttributeError"]
    ELSE IF heap[heap[self].left].data = None \/ heap[heap[self].right].data = None
    THEN [heap |-> heap, exc |-> "TypeError"]
    ELSE LET children_data == heap[heap[self].left].data \o heap[heap[self].right].data
         IN  [heap |-> [heap EXCEPT ![self].data = hash(hash_alg, children_data)],
              exc |-> NoExc]

RECURSIVE update_data_chains_previous(_, _, _)
\* faulty variant: the digest a node held before is hashed in with those of
\* its children
update_data_chains_previous(heap, self, hash_alg) ==
    IF heap[self].left = NoNode \/ heap[self].right = NoNode
    THEN [heap |-> heap, exc |-> "AttributeError"]
    ELSE IF heap[heap[self].left].data = None \/ heap[heap[self].right].data = None
    THEN [heap |-> heap, exc |-> "TypeError"]
    ELSE LET children_data == heap[heap[self].left].data \o heap[heap[self].right].data
             h1 == [heap EXCEPT ![self].data = hash(hash_alg, heap[self].data \o children_data)]
         IN  IF h1[self].parent # NoNode
             THEN update_data_chains_previous(h1, h1[self].parent, hash_alg)
             ELSE [heap |-> h1, exc |-> NoExc]

RECURSIVE update_data(_, _, _)
update_data(heap, self, hash_alg) ==
    IF heap[self].left = NoNode \/ heap[self].right = NoNode
    THEN [heap |-> heap, exc |-> "AttributeError"]
    ELSE IF heap[heap[self].left].data = None \/ heap[heap[self].right].data = None
    THEN [heap |-> heap, exc |-> "TypeError"]
    ELSE LET children_data == heap[heap[self].left].data \o heap[heap[self].right].data
             h1 == [heap EXCEPT ![self].data = hash(hash_alg, children_data)]
         IN  IF h1[self].parent # NoNode THEN update_data(h1, h1[self].parent, hash_alg)
             ELSE [heap |-> h1, exc |-> NoExc]

SparseMerkleTree(pool, hash_alg) ==
    [_hash_alg |-> hash_alg, _hash_size |-> get_hash_size(hash_alg), _root |-> 1,
     heap |-> [n \in {1} |-> create_root(get_hash_size(hash_alg),
                                         _get_dummy_hashes(pool, hash_alg))]]

SparseMerkleTree_tree_digest(self) == self.heap[self._root].data

RECURSIVE _tree_navigator(_, _, _, _)
\* the pairs (scanner, direction) the generator yields on a heap that no
\* consumer changes, from bit i of digest_bin on
_tree_navigator(heap, scanner, bits, i) ==
    IF i > Len(bits) \/ scanner = NoNode THEN <<>>
    ELSE <<[scanner |-> scanner, direction |-> bits[i]]>>
         \o _tree_navigator(heap, child(heap, scanner, bits[i]), bits, i + 1)

\* faulty variant: the children are created anew at every node of the path
mark_skips_node_always_false(heap, scanner) == FALSE

\* if not scanner.is_leaf: continue
mark_skips_node(heap, scanner) == ~is_leaf(heap, scanner)

\* lines 52-61: the body of mark's loop at a leaf of the materialization
mark_materialize(heap, scanner, dir, dummy_hashes) ==
    LET r == _SparseMerkleNode_create_node(heap, scanner, dir # RIGHT, dummy_hashes)
        rid == 2 * scanner + RIGHT
        keep1 == DOMAIN heap \cup {rid}
        h1 == [n \in keep1 |-> IF n = rid THEN r.node
                               ELSE IF n = scanner THEN [heap[n] EXCEPT !.right = rid]
                               ELSE heap[n]]
        l == _SparseMerkleNode_create_node(h1, scanner, dir # LEFT, dummy_hashes)
        lid == 2 * scanner + LEFT
        keep2 == DOMAIN h1 \cup {lid}
        h2 == [n \in keep2 |-> IF n = lid THEN l.node
                               ELSE IF n = scanner THEN [h1[n] EXCEPT !.left = lid]
                               ELSE h1[n]]
    IN  IF r.exc # NoExc THEN [heap |-> heap, exc |-> r.exc]
        ELSE IF l.exc # NoExc THEN [heap |-> h1, exc |-> l.exc]
        ELSE [heap |-> h2, exc |-> NoExc]

RECURSIVE mark_loop(_, _, _, _, _, _)
\* mark's for loop over _tree_navigator, which reads each child after the
\* loop body has run; last is the pair yielded last
mark_loop(heap, scanner, bits, i, last, dummy_hashes) ==
    IF i > Len(bits) \/ scanner = NoNode
    THEN [heap |-> heap, scanner |-> last.scanner, direction |-> last.direction, exc |-> NoExc]
    ELSE LET dir == bits[i]
             m == IF mark_skips_node(heap, scanner) THEN [heap |-> heap, exc |-> NoExc]
                  ELSE mark_materialize(heap, scanner, dir, dummy_hashes)
         IN  IF m.exc # NoExc
             THEN [heap |-> m.heap, scanner |-> scanner, direction |-> dir, exc |-> m.exc]
             ELSE mark_loop(m.heap, child(m.heap, scanner, dir), bits, i + 1,
                            [scanner |-> scanner, direction |-> dir], dummy_hashes)

mark(self, pool, digest) ==
    LET lp == mark_loop(self.heap, self._root, digest_bin(self._hash_size, digest), 1,
                        [scanner |-> NoNode, direction |-> LEFT],
                        _get_dummy_hashes(pool, self._hash_alg))
    IN  IF lp.exc # NoExc THEN [self |-> [self EXCEPT !.heap = lp.heap], exc |-> lp.exc]
        ELSE IF lp.scanner = NoNode \/ child(lp.heap, lp.scanner, lp.direction) = NoNode
        THEN [self |-> [self EXCEPT !.heap = lp.heap], exc |-> "AttributeError"]
        ELSE LET m == _SparseMerkleNode_mark(lp.heap, child(lp.heap, lp.scanner, lp.direction))
             IN  IF m.exc # NoExc THEN [self |-> [self EXCEPT !.heap = m.heap], exc |-> m.exc]
                 ELSE LET u == update_data(m.heap, lp.scanner, self._hash_alg)
                      IN  [self |-> [self EXCEPT !.heap = u.heap], exc |-> u.exc]

is_marked(self, digest) ==
    LET steps == _tree_navigator(self.heap, self._root, digest_bin(self._hash_size, digest), 1)
        lowest_node == child(self.heap, steps[Len(steps)].scanner, steps[Len(steps)].direction)
    IN  lowest_node # NoNode /\ _SparseMerkleNode_is_marked(self.heap, lowest_node)

SparseMerkleMarkProof(hash_alg, hashes, directions) ==
    [hash_alg |-> hash_alg, hashes |-> hashes, directions |-> directions]

RECURSIVE proof_loop_appends(_, _, _, _, _)
\* faulty variant: the entries are appended, which orders them root-to-leaf
proof_loop_appends(heap, steps, k, hashes, directions) ==
    IF k > Len(steps) \/ is_leaf(heap, steps[k].scanner)
    THEN [hashes |-> hashes, directions |-> directions]
    ELSE LET sibling_child == child(heap, steps[k].scanner, opposite(steps[k].direction))
         IN  proof_loop_appends(heap, steps, k + 1,
                                Append(hashes, heap[sibling_child].data),
                                Append(directions, direction(heap, sibling_child).val))

RECURSIVE proof_loop(_, _, _, _, _)
\* proof's for loop; insert(0, x) puts x in front
proof_loop(heap, steps, k, hashes, directions) ==
    IF k > Len(steps) \/ is_leaf(heap, steps[k].scanner)
    THEN [hashes |-> hashes, directions |-> directions]
    ELSE LET sibling_child == child(heap, steps[k].scanner, opposite(steps[k].direction))
         IN  proof_loop(heap, steps, k + 1,
                        <<heap[sibling_child].data>> \o hashes,
                        <<direction(heap, sibling_child).val>> \o directions)

proof(self, digest) ==
    LET steps == _tree_navigator(self.heap, self._root, digest_bin(self._hash_size, digest), 1)
        p == proof_loop(self.heap, steps, 1, <<>>, <<>>)
    IN  SparseMerkleMarkProof(self._hash_alg, p.hashes, p.directions)

\* faulty variant: the replay starts from the "exists" sentinel whatever is_marked says
validate_start_always_existing(pool, is_marked_arg, prf) == EXISTING_LEAF_DATA

\* line 130 of validate
validate_start(pool, is_marked_arg, prf) ==
    IF is_marked_arg THEN EXISTING_LEAF_DATA
    ELSE PyGetItem(_get_dummy_hashes(pool, prf.hash_alg),
                   get_hash_size(prf.hash_alg) - Len(prf.hashes)).val

validate(pool, td, is_marked_arg, prf) ==
    replay(prf.hash_alg, validate_start(pool, is_marked_arg, prf),
           prf.hashes, prf.directions, 1) = td

\* the pool validate leaves behind: line 130 asks for the dummy hashes only
\* when is_marked is false
validate_pool(pool, is_marked_arg, prf) ==
    IF is_marked_arg THEN pool ELSE _get_dummy_hashes_pool(pool, prf.hash_alg)

(***************************************************************************)
(* DisjointSet.  An element is referred to by its position in _elements    *)
(* (from 1); _parent holds such a reference.                               *)
(***************************************************************************)
DisjointSet == [_elements |-> <<>>]

\* the element make_set creates at position self
DisjointSetElement(value, self) == [_value |-> value, _rank |-> 1, _parent |-> self]

make_set(self, value) ==
    [self EXCEPT !._elements = Append(@, DisjointSetElement(value, Len(@) + 1))]

is_leader(self, element) == self._elements[element]._parent = element

rank(self, element) == self._elements[element]._rank

\* element.parent = value: parent is a property without a setter
set_parent(self, element, value) == [self |-> self, exc |-> "AttributeError"]

\* element.rank += 1: rank is a property without a setter
increment_rank(self, element) == [self |-> self, exc |-> "AttributeError"]

RECURSIVE find_leader(_, _)
\* the first while loop of find
find_leader(self, leader_scanner) ==
    IF is_leader(self, leader_scanner) THEN leader_scanner
    ELSE find_leader(self, self._elements[leader_scanner]._parent)

RECURSIVE find_flatten(_, _, _)
\* the second while loop of find
find_flatten(self, element, leader_scanner) ==
    IF is_leader(self, element) THEN [self |-> self, exc |-> NoExc]
    ELSE LET a == set_parent(self, element, leader_scanner)
         IN  IF a.exc # NoExc THEN a
             ELSE find_flatten(a.self, self._elements[element]._parent, leader_scanner)

find(self, element) ==
    LET leader_scanner == find_leader(self, element)
        f == find_flatten(self, element, leader_scanner)
    IN  [self |-> f.self, ret |-> IF f.exc = NoExc THEN leader_scanner ELSE NoReturn,
         exc |-> f.exc]

_union_leaders(self, first_leader, second_leader) ==
    IF first_leader = second_leader THEN [self |-> self, exc |-> NoExc]
    ELSE LET a == IF rank(self, first_leader) < rank(self, second_leader)
                  THEN set_parent(self, first_leader, second_leader)
                  ELSE set_parent(self, second_leader, first_leader)
         IN  IF a.exc # NoExc THEN a
             ELSE IF rank(a.self, first_leader) = rank(a.self, second_leader)
             THEN increment_rank(a.self, first_leader)
             ELSE a

RECURSIVE union_find_all(_, _, _, _)
\* leaders = [cls.find(element) for element in elements]
union_find_all(self, elements, i, leaders) ==
    IF i > Len(elements) THEN [self |-> self, leaders |-> leaders, exc |-> NoExc]
    ELSE LET f == find(self, elements[i])
         IN  IF f.exc # NoExc THEN [self |-> f.self, leaders |-> leaders, exc |-> f.exc]
             ELSE union_find_all(f.self, elements, i + 1, Append(leaders, f.ret))

RECURSIVE union_loop(_, _, _)
\* for f_leader, s_leader in zip(leaders, leaders[1:])
union_loop(self, leaders, i) ==
    IF i >= Len(leaders) THEN [self |-> self, exc |-> NoExc]
    ELSE LET u == _union_leaders(self, leaders[i], leaders[i + 1])
         IN  IF u.exc # NoExc THEN u ELSE union_loop(u.self, leaders, i + 1)

\* elements is the tuple of the arguments
union(self, elements) ==
    IF Len(elements) < 2 THEN [self |-> self, exc |-> NoExc]
    ELSE LET l == union_find_all(self, elements, 1, <<>>)
         IN  IF l.exc # NoExc THEN [self |-> l.self, exc |-> l.exc]
             ELSE union_loop(l.self, l.leaders, 1)

(***************************************************************************)
(* Pattern matching by dueling.  A str or list is a sequence; the code's   *)
(* indices count from 0, so list[i] is At(list, i).                        *)
(***************************************************************************)
At(list, i) == list[i + 1]

RECURSIVE _next_witness_mismatch(_, _, _)
_next_witness_mismatch(pattern_arg, start_index, jump_offset) ==
    IF start_index < Len(pattern_arg)
    THEN IF At(pattern_arg, start_index) # At(pattern_arg, jump_offset) THEN start_index
         ELSE _next_witness_mismatch(pattern_arg, start_index + 1, jump_offset + 1)
    ELSE start_index

RECURSIVE witness_table_loop(_, _, _, _, _)
\* the for loop of generate_pattern_witness_table, from index on
witness_table_loop(pattern_arg, index, witness_table, maximal_witness_index, maximal_witness_value) ==
    IF index >= Len(pattern_arg) THEN witness_table
    ELSE IF index > maximal_witness_value
    THEN LET v == _next_witness_mismatch(pattern_arg, index, 0)
         IN  witness_table_loop(pattern_arg, index + 1, Append(witness_table, v), index, v)
    ELSE LET known_maximal_match ==
                 At(witness_table, index - maximal_witness_index) + maximal_witness_index
         IN  IF known_maximal_match = maximal_witness_value
             THEN LET v == _next_witness_mismatch(pattern_arg, known_maximal_match,
                                                  known_maximal_match - index)
                  IN  witness_table_loop(pattern_arg, index + 1, Append(witness_table, v),
                                         index, v)
             ELSE IF known_maximal_match < maximal_witness_value
             THEN witness_table_loop(pattern_arg, index + 1,
                                     Append(witness_table, known_maximal_match),
                                     maximal_witness_index, maximal_witness_value)
             ELSE witness_table_loop(pattern_arg, index + 1,
                                     Append(witness_table, maximal_witness_value),
                                     maximal_witness_index, maximal_witness_value)

generate_pattern_witness_table(pattern_arg) ==
    witness_table_loop(pattern_arg, 1,
                       IF pattern_arg # <<>> THEN <<Len(pattern_arg)>> ELSE <<>>, 0, 0)

\* the winner of the duel, NoReturn standing for None
_duel(text_arg, pattern_arg, witness_table, first, second) ==
    IF second - first >= Len(pattern_arg) THEN NoReturn
    ELSE LET mismatch_offset == At(witness_table, second - first)
         IN  IF mismatch_offset = Len(pattern_arg) THEN NoReturn
             ELSE IF At(pattern_arg, mismatch_offset) = At(text_arg, first + mismatch_offset)
             THEN first
             ELSE second

RECURSIVE _elimination_by_dueling_loop(_, _, _, _, _)
\* the while loop of _elimination_by_dueling
_elimination_by_dueling_loop(text_arg, pattern_arg, witness_table, scanner, candidates) ==
    IF scanner > Len(text_arg) - Len(pattern_arg) THEN candidates
    ELSE IF candidates = <<>>
    THEN _elimination_by_dueling_loop(text_arg, pattern_arg, witness_table, scanner + 1,
                                      Append(candidates, scanner))
    ELSE LET right_most_candidate == candidates[Len(candidates)]
             winner == _duel(text_arg, pattern_arg, witness_table, right_most_candidate, scanner)
         IN  IF winner = NoReturn
             THEN _elimination_by_dueling_loop(text_arg, pattern_arg, witness_table,
                                               scanner + 1, Append(candidates, scanner))
             ELSE IF winner = right_most_candidate
             THEN _elimination_by_dueling_loop(text_arg, pattern_arg, witness_table,
                                               scanner + 1, candidates)
             ELSE _elimination_by_dueling_loop(text_arg, pattern_arg, witness_table, scanner,
                                               SubSeq(candidates, 1, Len(candidates) - 1))

_elimination_by_dueling(text_arg, pattern_arg, witness_table) ==
    _elimination_by_dueling_loop(text_arg, pattern_arg, witness_table, 0, <<>>)

RECURSIVE wave_segment(_, _, _, _, _)
\* the inner for loop of _mismatches_by_candidates_wave: the mismatching
\* text indices of one segment, from text_index on
wave_segment(text_arg, pattern_arg, segment_start, text_index, segment_end) ==
    IF text_index >= segment_end THEN <<>>
    ELSE (IF At(pattern_arg, text_index - segment_start) # At(text_arg, text_index)
          THEN <<text_index>> ELSE <<>>)
         \o wave_segment(text_arg, pattern_arg, segment_start, text_index + 1, segment_end)

RECURSIVE _mismatches_by_candidates_wave_loop(_, _, _, _)
_mismatches_by_candidates_wave_loop(text_arg, pattern_arg, candidates, candidate_index) ==
    IF candidate_index >= Len(candidates) THEN <<>>
    ELSE LET segment_start == At(candidates, candidate_index)
             segment_end ==
                 IF /\ candidate_index + 1 < Len(candidates)
                    /\ At(candidates, candidate_index + 1) < segment_start + Len(pattern_arg)
                 THEN At(candidates, candidate_index + 1)
                 ELSE segment_start + Len(pattern_arg)
         IN  wave_segment(text_arg, pattern_arg, segment_start, segment_start, segment_end)
             \o _mismatches_by_candidates_wave_loop(text_arg, pattern_arg, candidates,
                                                    candidate_index + 1)

_mismatches_by_candidates_wave(text_arg, pattern_arg, candidates) ==
    _mismatches_by_candidates_wave_loop(text_arg, pattern_arg, candidates, 0)

RECURSIVE search_loop(_, _, _, _, _, _)
\* lines 88-98 of search_pattern_in_text: the for loop over mismatches, from
\* mismatch number m (counted from 0) on, with its inner while loop
search_loop(pattern_arg, candidates, mismatches, m, candidates_scanner, found) ==
    IF m >= Len(mismatches) THEN found
    ELSE IF At(candidates, candidates_scanner) <= At(mismatches, m)
    THEN LET found1 == IF At(candidates, candidates_scanner)
                             <= At(mismatches, m) - Len(pattern_arg)
                       THEN Append(found, At(candidates, candidates_scanner))
                       ELSE found
         IN  IF candidates_scanner + 1 = Len(candidates) THEN found1
             ELSE search_loop(pattern_arg, candidates, mismatches, m,
                              candidates_scanner + 1, found1)
    ELSE search_loop(pattern_arg, candidates, mismatches, m + 1, candidates_scanner, found)

\* witness_table=None: the table is computed from the pattern
search_pattern_in_text(text_arg, pattern_arg) ==
    IF Len(text_arg) < Len(pattern_arg) THEN <<>>
    ELSE LET witness_table == generate_pattern_witness_table(pattern_arg)
             candidates == _elimination_by_dueling(text_arg, pattern_arg, witness_table)
         IN  IF candidates = <<>> THEN <<>>
             ELSE LET mismatches ==
                          _mismatches_by_candidates_wave(text_arg, pattern_arg, candidates)
                  IN  IF mismatches = <<>> THEN candidates
                      ELSE search_loop(pattern_arg, candidates, mismatches, 0, 0, <<>>)

(***************************************************************************)
(* State machines.  fed and marked are history variables: the payloads     *)
(* passed to add_node on each dense tree, and the digests passed to mark.  *)
(* lastCall holds the latest call: the dense tree it was made on, the tree *)
(* digest before it, and its outcome; for proof_leaf also its argument.    *)
(***************************************************************************)
\* no sparse tree has been constructed: the class-level pool is the empty dict
NoSparseTree == [_hash_alg |-> sha256, _hash_size |-> 0, _root |-> NoNode, heap |-> <<>>]

NoCall == [op |-> "none", tree |-> 0, before |-> None, ret |-> NoReturn, exc |-> NoExc]

\* no proof object is held by the caller
NoProof == [kind |-> "none"]

\* the state of the modules a specification does not exercise
NoDisjointSet == ds = DisjointSet /\ joined = {}

NoDueling == text = <<>> /\ pattern = <<>> /\ matches = <<>>

Threads == 1..MaxThreads

\* no thread has called _get_dummy_hashes
NoThreads ==
    /\ pc = [t \in Threads |-> "idle"]
    /\ local_dummy_hashes = [t \in Threads |-> <<>>]
    /\ returned = [t \in Threads |-> <<>>]
    /\ stores = 0

\* two dense trees, just constructed
InitDense ==
    /\ mt = [t \in Trees |-> MerkleTree(sha256)]
    /\ fed = [t \in Trees |-> <<>>]
    /\ lastCall = NoCall
    /\ DUMMY_HASHES_POOL = <<>>
    /\ smt = NoSparseTree
    /\ marked = {}
    /\ held = NoProof
    /\ NoDisjointSet
    /\ NoDueling
    /\ NoThreads

\* one sparse tree, just constructed: __init__ has filled the pool
InitSparse ==
    /\ mt = [t \in Trees |-> MerkleTree(sha256)]
    /\ fed = [t \in Trees |-> <<>>]
    /\ lastCall = NoCall
    /\ DUMMY_HASHES_POOL = _get_dummy_hashes_pool(<<>>, sha256)
    /\ smt = SparseMerkleTree(<<>>, sha256)
    /\ marked = {}
    /\ held = NoProof
    /\ NoDisjointSet
    /\ NoDueling
    /\ NoThreads

\* faulty variant: the proof handed out keeps a reference to the tree and
\* reports the digest the tree has now
AddNode_held_follows_tree(t, data) ==
    /\ Len(fed[t]) < MaxCalls
    /\ LET r == add_node(mt[t], data)
       IN  /\ mt' = [mt EXCEPT ![t] = r.self]
           /\ lastCall' = [op |-> "add_node", tree |-> t,
                            before |-> MerkleTree_tree_digest(mt[t]),
                            ret |-> r.ret, exc |-> r.exc]
           /\ held' = IF held.kind = "LeafProof" /\ held.tree = t
                      THEN [held EXCEPT !.proof.tree_digest = MerkleTree_tree_digest(r.self)]
                      ELSE held
    /\ fed' = [fed EXCEPT ![t] = Append(@, data)]
    /\ UNCHANGED <<sparseVars, disjointSetVars, duelingVars, threadVars>>

\* the state after add_node(data) on tree t had the outcome r
AddNodeOutcome(t, data, r) ==
    /\ mt' = [mt EXCEPT ![t] = r.self]
    /\ lastCall' = [op |-> "add_node", tree |-> t,
                     before |-> MerkleTree_tree_digest(mt[t]),
                     ret |-> r.ret, exc |-> r.exc]
    /\ fed' = [fed EXCEPT ![t] = Append(@, data)]
    /\ UNCHANGED <<sparseVars, held, disjointSetVars, duelingVars, threadVars>>

AddNode(t, data) ==
    /\ Len(fed[t]) < MaxCalls
    /\ AddNodeOutcome(t, data, add_node(mt[t], data))

\* a caller asks tree t for the proof of leaf leaf_id and keeps the proof it
\* is given; a raising call gives it nothing
ProofLeaf(t, leaf_id) ==
    /\ LET r == proof_leaf(mt[t], leaf_id)
       IN  /\ held' = IF r.exc = NoExc
                      THEN [kind |-> "LeafProof", tree |-> t, leaf_id |-> leaf_id,
                            proof |-> r.proof]
                      ELSE held
           /\ lastCall' = [op |-> "proof_leaf", tree |-> t, arg |-> leaf_id,
                            before |-> MerkleTree_tree_digest(mt[t]),
                            ret |-> NoReturn, exc |-> r.exc]
    /\ UNCHANGED <<denseVars, sparseVars, disjointSetVars, duelingVars, threadVars>>

\* the state after mark(digest) had the outcome r
MarkOutcome(digest, r) ==
    /\ smt' = r.self
    /\ lastCall' = [op |-> "mark", tree |-> 0,
                     before |-> SparseMerkleTree_tree_digest(smt),
                     ret |-> NoReturn, exc |-> r.exc]
    /\ DUMMY_HASHES_POOL' = _get_dummy_hashes_pool(DUMMY_HASHES_POOL, smt._hash_alg)
    /\ UNCHANGED <<denseVars, held, disjointSetVars, duelingVars, threadVars>>

Mark(digest) ==
    /\ marked' = marked \cup {digest}
    /\ MarkOutcome(digest, mark(smt, DUMMY_HASHES_POOL, digest))

NextDense == \E t \in Trees, data \in Data : AddNode(t, data)

NextSparse == \E digest \in Digests : Mark(digest)

\* a caller asks the sparse tree for the proof of digest and keeps it,
\* together with what the tree answered then: tree_digest and is_marked
Proof(digest) ==
    /\ held' = [kind |-> "SparseMerkleMarkProof", digest |-> digest,
                tree_digest |-> SparseMerkleTree_tree_digest(smt),
                is_marked |-> is_marked(smt, digest),
                proof |-> proof(smt, digest)]
    /\ lastCall' = [op |-> "proof", tree |-> 0, arg |-> digest,
                     before |-> SparseMerkleTree_tree_digest(smt),
                     ret |-> NoReturn, exc |-> NoExc]
    /\ UNCHANGED <<denseVars, sparseVars, disjointSetVars, duelingVars, threadVars>>

\* digests handed to mark without regard to their length: three of Digests,
\* and hexadecimal text of three digits, whose value takes 9 bits
AnyDigests == {<<8, 0>>, <<8, 1>>, <<15, 15>>, <<1, 0, 0>>, <<1, 8, 1>>}

NextSparseAnyDigest == \E digest \in AnyDigests : Mark(digest)

\* the dense tree whose proofs a caller holds
ProofTree == CHOOSE t \in Trees : \A u \in Trees : t <= u

\* leaf_id arguments of proof_leaf: in range, negative, and past the last leaf
LeafIdArgs == -1 .. MaxCalls

NextProofLeaf ==
    \/ \E data \in Data : AddNode(ProofTree, data)
    \/ \E leaf_id \in LeafIdArgs : ProofLeaf(ProofTree, leaf_id)

\* dense trees under add_node
Spec == InitDense /\ [][NextDense]_vars

\* a sparse tree under mark
SpecSparse == InitSparse /\ [][NextSparse]_vars

\* values handed to make_set
Values == {"x", "y"}

MakeSet(value) ==
    /\ Len(ds._elements) < MaxElements
    /\ ds' = make_set(ds, value)
    /\ lastCall' = [op |-> "make_set", tree |-> 0, arg |-> value, before |-> None,
                     ret |-> Len(ds._elements) + 1, exc |-> NoExc]
    /\ UNCHANGED <<joined, denseVars, sparseVars, held, duelingVars, threadVars>>

\* union(*elements) on elements that make_set returned; joined keeps the
\* pairs of neighbouring arguments, which are the pairs the call is to join
Union(elements) ==
    /\ \A i \in 1..Len(elements) : elements[i] <= Len(ds._elements)
    /\ LET r == union(ds, elements)
       IN  /\ ds' = r.self
           /\ lastCall' = [op |-> "union", tree |-> 0, arg |-> elements, before |-> None,
                            ret |-> NoReturn, exc |-> r.exc]
    /\ joined' = joined \cup {{elements[i], elements[i + 1]} : i \in 1..(Len(elements) - 1)}
    /\ UNCHANGED <<denseVars, sparseVars, held, duelingVars, threadVars>>

\* the argument tuples of union: one element, or two (the same one twice
\* included)
UnionArgs ==
    {<<a>> : a \in 1..MaxElements} \cup {<<a, b>> : a \in 1..MaxElements, b \in 1..MaxElements}

NextDisjointSet ==
    \/ \E value \in Values : MakeSet(value)
    \/ \E elements \in UnionArgs : Union(elements)

\* the characters of texts and patterns
Alphabet == {"a", "b"}

\* the sequences over Alphabet of at most n characters
Strings(n) == UNION {[1..k -> Alphabet] : k \in 0..n}

\* a text and a pattern are chosen; nothing was searched yet
InitDueling ==
    /\ mt = [t \in Trees |-> MerkleTree(sha256)]
    /\ fed = [t \in Trees |-> <<>>]
    /\ lastCall = NoCall
    /\ DUMMY_HASHES_POOL = <<>>
    /\ smt = NoSparseTree
    /\ marked = {}
    /\ held = NoProof
    /\ NoDisjointSet
    /\ text \in Strings(MaxTextLen)
    /\ pattern \in Strings(MaxPatternLen)
    /\ matches = <<>>
    /\ NoThreads

Search ==
    /\ lastCall = NoCall
    /\ matches' = search_pattern_in_text(text, pattern)
    /\ lastCall' = [op |-> "search_pattern_in_text", tree |-> 0, before |-> None,
                     ret |-> NoReturn, exc |-> NoExc]
    /\ UNCHANGED <<text, pattern, denseVars, sparseVars, held, disjointSetVars, threadVars>>

NextDueling == Search

\* payloads and digests of the calls made while a caller holds a proof
SnapshotData == {b0, b1}

SnapshotDigests == {<<8, 1>>, <<12, 0>>}

NextSnapshot ==
    \/ \E data \in SnapshotData : AddNode(ProofTree, data)
    \/ \E leaf_id \in LeafIdArgs : ProofLeaf(ProofTree, leaf_id)
    \/ \E digest \in SnapshotDigests : Mark(digest)
    \/ \E digest \in SnapshotDigests : Proof(digest)

\* the hash functions sparse trees are constructed with; both have a block
\* of 64 bytes, BlockSize in the model
HashAlgs == {sha256, md5}

\* SparseMerkleTree(hash_alg): a new tree takes the place of the one in use;
\* marked starts over with it
Construct(hash_alg) ==
    /\ smt' = SparseMerkleTree(DUMMY_HASHES_POOL, hash_alg)
    /\ DUMMY_HASHES_POOL' = _get_dummy_hashes_pool(DUMMY_HASHES_POOL, hash_alg)
    /\ marked' = {}
    /\ lastCall' = [op |-> "SparseMerkleTree", tree |-> 0, arg |-> hash_alg,
                     before |-> SparseMerkleTree_tree_digest(smt),
                     ret |-> NoReturn, exc |-> NoExc]
    /\ UNCHANGED <<denseVars, held, disjointSetVars, duelingVars, threadVars>>

\* faulty variant: is_marked walks the tree with the loop of mark, which
\* materializes the path of the digest
IsMarked_materializes(digest) ==
    /\ lastCall' = [op |-> "is_marked", tree |-> 0, arg |-> digest,
                     before |-> SparseMerkleTree_tree_digest(smt),
                     ret |-> IF is_marked(smt, digest) THEN 1 ELSE 0, exc |-> NoExc]
    /\ smt' = [smt EXCEPT !.heap = mark_loop(smt.heap, smt._root,
                                             digest_bin(smt._hash_size, digest), 1,
                                             [scanner |-> NoNode, direction |-> LEFT],
                                             _get_dummy_hashes(DUMMY_HASHES_POOL,
                                                               smt._hash_alg)).heap]
    /\ UNCHANGED <<marked, DUMMY_HASHES_POOL, denseVars, held, disjointSetVars, duelingVars,
                   threadVars>>

\* is_marked(digest); ret is 1 for True and 0 for False
IsMarked(digest) ==
    /\ lastCall' = [op |-> "is_marked", tree |-> 0, arg |-> digest,
                     before |-> SparseMerkleTree_tree_digest(smt),
                     ret |-> IF is_marked(smt, digest) THEN 1 ELSE 0, exc |-> NoExc]
    /\ UNCHANGED <<denseVars, sparseVars, held, disjointSetVars, duelingVars, threadVars>>

\* the proof a caller passes to validate for hash_alg: the one it holds if
\* that is a sparse proof of hash_alg, else a proof of hash_alg without entries
proof_to_validate(hash_alg) ==
    IF held.kind = "SparseMerkleMarkProof" /\ held.proof.hash_alg = hash_alg
    THEN held.proof
    ELSE SparseMerkleMarkProof(hash_alg, <<>>, <<>>)

\* validate(tree_digest, is_marked, proof) against the digest of the tree in
\* use; ret is 1 for True and 0 for False
Validate(hash_alg, is_marked_arg) ==
    /\ lastCall' = [op |-> "validate", tree |-> 0, arg |-> hash_alg,
                     before |-> SparseMerkleTree_tree_digest(smt),
                     ret |-> IF validate(DUMMY_HASHES_POOL, SparseMerkleTree_tree_digest(smt),
                                         is_marked_arg, proof_to_validate(hash_alg))
                             THEN 1 ELSE 0,
                     exc |-> NoExc]
    /\ DUMMY_HASHES_POOL' = validate_pool(DUMMY_HASHES_POOL, is_marked_arg,
                                          proof_to_validate(hash_alg))
    /\ UNCHANGED <<smt, marked, denseVars, held, disjointSetVars, duelingVars, threadVars>>

NextPool ==
    \/ \E hash_alg \in HashAlgs : Construct(hash_alg)
    \/ \E digest \in SnapshotDigests : Mark(digest)
    \/ \E digest \in SnapshotDigests : IsMarked(digest)
    \/ \E digest \in SnapshotDigests : Proof(digest)
    \/ \E hash_alg \in HashAlgs, is_marked_arg \in BOOLEAN : Validate(hash_alg, is_marked_arg)

\* sparse trees of two hash functions, constructed one after the other,
\* under every call of SparseMerkleTree
SpecPool == InitSparse /\ [][NextPool]_vars

\* validate_proof(tree_digest, data, leaf_proof) with the proof the caller
\* holds, against the digest tree t has now; ret is 1 for True and 0 for False
ValidateProof(t, data) ==
    /\ held.kind = "LeafProof"
    /\ lastCall' = [op |-> "validate_proof", tree |-> t, arg |-> data,
                     before |-> MerkleTree_tree_digest(mt[t]),
                     ret |-> IF validate_proof(MerkleTree_tree_digest(mt[t]), data, held.proof)
                             THEN 1 ELSE 0,
                     exc |-> NoExc]
    /\ UNCHANGED <<denseVars, sparseVars, held, disjointSetVars, duelingVars, threadVars>>

\* leaf_id arguments of the proof_leaf calls made among the other reads
ReadLeafIds == {0, 1}

NextReads ==
    \/ AddNode(ProofTree, b0)
    \/ \E leaf_id \in ReadLeafIds : ProofLeaf(ProofTree, leaf_id)
    \/ \E data \in SnapshotData : ValidateProof(ProofTree, data)
    \/ \E digest \in SnapshotDigests : Mark(digest)
    \/ \E digest \in SnapshotDigests : IsMarked(digest)
    \/ \E digest \in SnapshotDigests : Proof(digest)
    \/ \E is_marked_arg \in BOOLEAN : Validate(sha256, is_marked_arg)

\* a dense and a sparse tree under every call of their classes, the reading
\* ones included
SpecReads == InitSparse /\ [][NextReads]_vars

\* Threads in _get_dummy_hashes(sha256), each called from a constructor or
\* from validate.  The interpreter may switch threads between any two of
\* the steps below; pc is the step a thread is to take next,
\* local_dummy_hashes the local list of _generate_dummy_hashes, returned
\* what the call returned, stores the number of assignments to the pool.
\* line 196: if hash_alg not in cls._DUMMY_HASHES_POOL
Check(t) ==
    /\ pc[t] = "idle"
    /\ pc' = [pc EXCEPT ![t] = IF sha256 \notin DOMAIN DUMMY_HASHES_POOL
                                THEN "generate" ELSE "return"]
    /\ UNCHANGED <<local_dummy_hashes, returned, stores, DUMMY_HASHES_POOL, smt, marked,
                   lastCall, denseVars, held, disjointSetVars, duelingVars>>

\* line 185: dummy_hashes = [cls.NON_EXISTING_LEAF_DATA]
GenerateStart(t) ==
    /\ pc[t] = "generate"
    /\ local_dummy_hashes[t] = <<>>
    /\ local_dummy_hashes' = [local_dummy_hashes EXCEPT ![t] = <<NON_EXISTING_LEAF_DATA>>]
    /\ UNCHANGED <<pc, returned, stores, DUMMY_HASHES_POOL, smt, marked,
                   lastCall, denseVars, held, disjointSetVars, duelingVars>>

\* lines 186-190: one iteration of the for loop
GenerateStep(t) ==
    /\ pc[t] = "generate"
    /\ local_dummy_hashes[t] # <<>>
    /\ Len(local_dummy_hashes[t]) < get_hash_size(sha256) + 1
    /\ local_dummy_hashes' =
           [local_dummy_hashes EXCEPT ![t] = generate_dummy_hashes_step(sha256, @)]
    /\ UNCHANGED <<pc, returned, stores, DUMMY_HASHES_POOL, smt, marked,
                   lastCall, denseVars, held, disjointSetVars, duelingVars>>

\* lines 192 and 197: the list is returned and assigned to the pool
Store(t) ==
    /\ pc[t] = "generate"
    /\ Len(local_dummy_hashes[t]) = get_hash_size(sha256) + 1
    /\ DUMMY_HASHES_POOL' = [a \in DOMAIN DUMMY_HASHES_POOL \cup {sha256} |->
                                IF a = sha256 THEN local_dummy_hashes[t] ELSE DUMMY_HASHES_POOL[a]]
    /\ stores' = stores + 1
    /\ pc' = [pc EXCEPT ![t] = "return"]
    /\ UNCHANGED <<local_dummy_hashes, returned, smt, marked,
                   lastCall, denseVars, held, disjointSetVars, duelingVars>>

\* line 199: return cls._DUMMY_HASHES_POOL[hash_alg]; a missing key raises
\* KeyError and nothing is returned
Return(t) ==
    /\ pc[t] = "return"
    /\ returned' = [returned EXCEPT ![t] = IF sha256 \in DOMAIN DUMMY_HASHES_POOL
                                            THEN DUMMY_HASHES_POOL[sha256] ELSE <<>>]
    /\ pc' = [pc EXCEPT ![t] = IF sha256 \in DOMAIN DUMMY_HASHES_POOL
                                THEN "done" ELSE "KeyError"]
    /\ UNCHANGED <<local_dummy_hashes, stores, DUMMY_HASHES_POOL, smt, marked,
                   lastCall, denseVars, held, disjointSetVars, duelingVars>>

NextThreads ==
    \E t \in Threads :
        Check(t) \/ GenerateStart(t) \/ GenerateStep(t) \/ Store(t) \/ Return(t)

\* threads that call _get_dummy_hashes(sha256) in a process whose pool is
\* still empty
SpecThreads == InitDense /\ [][NextThreads]_vars

\* a sparse tree under mark, the digests being of any length
SpecSparseAnyDigest == InitSparse /\ [][NextSparseAnyDigest]_vars

\* a dense tree under add_node, and a caller that holds one of its proofs
SpecProofLeaf == InitDense /\ [][NextProofLeaf]_vars

\* a disjoint set under make_set and union
SpecDisjointSet == InitDense /\ [][NextDisjointSet]_vars

\* one search of a pattern in a text
SpecDueling == InitDueling /\ [][NextDueling]_vars

\* a dense and a sparse tree under add_node and mark, and a caller that
\* holds a proof of one of them
SpecSnapshot == InitSparse /\ [][NextSnapshot]_vars

(***************************************************************************)
(* Properties of the dense tree (specification Spec)                       *)
(***************************************************************************)
\* the payload of leaf i (0-based) of dense tree t: the i-th payload fed
leaf_data(t, i) == fed[t][i + 1]

LeafIds(t) == 0..(Len(mt[t]._leaves) - 1)

\* C1: in every state reached by add_node calls, for every inserted leaf i,
\* proof_leaf(i) succeeds and validate_proof(current tree_digest, data_i,
\* proof_leaf(i)) is true, right after the insertion and after later ones.
C1_ProofOfEveryLeafValidates ==
    \A t \in Trees : \A i \in LeafIds(t) :
        /\ proof_leaf(mt[t], i).exc = NoExc
        /\ validate_proof(MerkleTree_tree_digest(mt[t]), leaf_data(t, i),
                          proof_leaf(mt[t], i).proof)

\* C1 witness: a tree of two leaves with different payloads whose first
\* leaf, inserted before the second, has a one-entry proof that validates
C1_Witness ==
    /\ Len(mt[1]._leaves) = 2
    /\ leaf_data(1, 0) # leaf_data(1, 1)
    /\ Len(proof_leaf(mt[1], 0).proof.hashes) = 1
    /\ validate_proof(MerkleTree_tree_digest(mt[1]), leaf_data(1, 0), proof_leaf(mt[1], 0).proof)

\* C6: every add_node call completes without raising, the k-th call on a
\* tree returns k-1, and the leaf list holds exactly the payloads fed so
\* far, in order.
C6_AddNodeAlwaysAppends ==
    /\ lastCall.op = "add_node" =>
           /\ lastCall.exc = NoExc
           /\ lastCall.ret = Len(fed[lastCall.tree]) - 1
    /\ \A t \in Trees :
           /\ Len(mt[t]._leaves) = Len(fed[t])
           /\ \A i \in LeafIds(t) : mt[t].heap[mt[t]._leaves[i + 1]].data = leaf_data(t, i)

\* C7: two trees fed the same sequence of payloads have the same
\* tree_digest, whatever was done to the other instances in between.
C7_SameSequenceSameDigest ==
    \A t, u \in Trees :
        fed[t] = fed[u] => MerkleTree_tree_digest(mt[t]) = MerkleTree_tree_digest(mt[u])

\* C7 witness: both trees were fed the same two different payloads and
\* agree on a digest
C7_Witness ==
    /\ Len(fed[1]) = 2
    /\ fed[1][1] # fed[1][2]
    /\ fed[2] = fed[1]
    /\ MerkleTree_tree_digest(mt[1]) # None
    /\ MerkleTree_tree_digest(mt[1]) = MerkleTree_tree_digest(mt[2])

\* C8: tree_digest is None while the tree is empty; after add_node(d0) it
\* is HashFunction(d0) and the leaf of d0 is the root; after add_node(d1)
\* the tree has two leaves under the root and tree_digest is
\* HashFunction(HashFunction(d0) ++ HashFunction(d1)).
C8_FirstTwoInsertions ==
    \A t \in Trees :
        LET self == mt[t]
            alg == self._hash_alg
        IN  /\ Len(fed[t]) = 0 => MerkleTree_tree_digest(self) = None /\ self._leaves = <<>>
            /\ Len(fed[t]) = 1 =>
                   /\ MerkleTree_tree_digest(self) = hash(alg, fed[t][1])
                   /\ self._leaves = <<self._root>>
                   /\ self.heap[self._root].data = fed[t][1]
            /\ Len(fed[t]) = 2 =>
                   /\ MerkleTree_tree_digest(self)
                        = hash(alg, hash(alg, fed[t][1]) \o hash(alg, fed[t][2]))
                   /\ Len(self._leaves) = 2
                   /\ self.heap[self._root].left = self._leaves[1]
                   /\ self.heap[self._root].right = self._leaves[2]
                   /\ self.heap[self._leaves[1]].data = fed[t][1]
                   /\ self.heap[self._leaves[2]].data = fed[t][2]

\* C8 witness: b'0' then b'1' were inserted into tree 1
C8_Witness ==
    /\ fed[1] = <<b0, b1>>
    /\ MerkleTree_tree_digest(mt[1]) = hash(sha256, hash(sha256, b0) \o hash(sha256, b1))

\* the number of leaves tree t held when the latest call on it began
leaves_before_last_call(t) ==
    IF lastCall.exc = NoExc THEN Len(mt[t]._leaves) - 1 ELSE Len(mt[t]._leaves)

PowersOfTwo == {2 ^ k : k \in 0..MaxCalls}

\* C9: a tree of exactly 2^k leaves has a root of height k and leaf count
\* 2^k, and the add_node that follows yields a leaf whose proof is the one
\* entry (tree digest before the insertion, LEFT).
C9_FullTreeBalancedThenSplitAtRoot ==
    /\ \A t \in Trees : \A k \in 0..MaxCalls :
           Len(mt[t]._leaves) = 2 ^ k =>
               /\ mt[t].heap[mt[t]._root].height = PyInt(k)
               /\ mt[t].heap[mt[t]._root].leaves_counter = PyInt(2 ^ k)
    /\ (lastCall.op = "add_node" /\ leaves_before_last_call(lastCall.tree) \in PowersOfTwo) =>
           /\ lastCall.exc = NoExc
           /\ proof_leaf(mt[lastCall.tree], lastCall.ret).proof.hashes = <<lastCall.before>>
           /\ proof_leaf(mt[lastCall.tree], lastCall.ret).proof.directions = <<LEFT>>

\* digests a forger may put in place of a sibling hash
TamperDigests ==
    {hash(sha256, d) : d \in Data}
        \cup {hash(sha256, hash(sha256, d) \o hash(sha256, e)) : d \in Data, e \in Data}

\* leaf_proof with entry j's sibling hash replaced by digest h
with_hash(leaf_proof, j, h) == [leaf_proof EXCEPT !.hashes[j] = h]

\* leaf_proof with entry j's direction flipped
with_flip(leaf_proof, j) == [leaf_proof EXCEPT !.directions[j] = opposite(@)]

\* the proofs that differ from leaf_proof in exactly one entry
Tampered(leaf_proof) ==
    UNION {{with_hash(leaf_proof, j, h) : h \in TamperDigests \ {leaf_proof.hashes[j]}} :
               j \in 1..Len(leaf_proof.hashes)}
        \cup {with_flip(leaf_proof, j) : j \in 1..Len(leaf_proof.directions)}

\* C10 as stated: validate_proof rejects every proof obtained from
\* proof_leaf(i) by replacing one sibling hash or flipping one direction.
C10_EveryTamperedProofRejected ==
    \A t \in Trees : \A i \in LeafIds(t) :
        \A q \in Tampered(proof_leaf(mt[t], i).proof) :
            ~validate_proof(MerkleTree_tree_digest(mt[t]), leaf_data(t, i), q)

\* the running digest validate_proof combines with entry j of leaf_proof
running_hash(data, leaf_proof, j) ==
    replay(leaf_proof.hash_alg, hash(leaf_proof.hash_alg, data),
           SubSeq(leaf_proof.hashes, 1, j - 1), SubSeq(leaf_proof.directions, 1, j - 1), 1)

\* C10 amended: a proof with one sibling hash replaced by a different
\* digest is rejected; a proof with the direction of entry j flipped is
\* rejected exactly when the sibling hash of entry j differs from the
\* running digest it is combined with, and accepted when they are equal.
C10_TamperedRejectedUnlessSymmetric ==
    \A t \in Trees : \A i \in LeafIds(t) :
        LET p == proof_leaf(mt[t], i).proof
            td == MerkleTree_tree_digest(mt[t])
        IN  /\ \A j \in 1..Len(p.hashes) : \A h \in TamperDigests :
                   h # p.hashes[j] => ~validate_proof(td, leaf_data(t, i), with_hash(p, j, h))
            /\ \A j \in 1..Len(p.directions) :
                   validate_proof(td, leaf_data(t, i), with_flip(p, j))
                       <=> p.hashes[j] = running_hash(leaf_data(t, i), p, j)

\* C10 witness: in a tree of two leaves with the same payload, a proof with
\* a replaced sibling hash is rejected and the proof with the flipped
\* direction is accepted
C10_Witness ==
    /\ fed[1] = <<b0, b0>>
    /\ ~validate_proof(MerkleTree_tree_digest(mt[1]), b0,
                       with_hash(proof_leaf(mt[1], 0).proof, 1, hash(sha256, b1)))
    /\ validate_proof(MerkleTree_tree_digest(mt[1]), b0, with_flip(proof_leaf(mt[1], 0).proof, 1))

(***************************************************************************)
(* Properties of the sparse tree (specification SpecSparse)                *)
(***************************************************************************)
\* C2: once mark(d) has completed, is_marked(d) is true in that state and
\* in every later state, whatever else is marked.
C2_MarkedStaysMarked == \A d \in marked : is_marked(smt, d)

\* C2 witness: three digests on three different paths were marked and all
\* are reported marked
C2_Witness ==
    /\ {<<0, 0>>, <<8, 1>>, <<15, 15>>} \subseteq marked
    /\ \A d \in {<<0, 0>>, <<8, 1>>, <<15, 15>>} : is_marked(smt, d)

\* C3: is_marked(d') is false for every digest d' that was never passed
\* to mark, whatever other digests were marked.
C3_NeverMarkedIsUnmarked == \A d \in Digests \ marked : ~is_marked(smt, d)

\* C4: for every marked digest d, validate(tree_digest, True, proof(d)) is
\* true and validate(tree_digest, False, proof(d)) is false.
C4_MarkedProofValidates ==
    \A d \in marked :
        /\ validate(DUMMY_HASHES_POOL, SparseMerkleTree_tree_digest(smt), TRUE, proof(smt, d))
        /\ ~validate(DUMMY_HASHES_POOL, SparseMerkleTree_tree_digest(smt), FALSE, proof(smt, d))

\* C4 witness: two digests on different paths are marked and the proof of
\* one of them, one entry per level, validates as marked
C4_Witness ==
    /\ {<<8, 1>>, <<12, 0>>} \subseteq marked
    /\ Len(proof(smt, <<8, 1>>).hashes) = smt._hash_size
    /\ validate(DUMMY_HASHES_POOL, SparseMerkleTree_tree_digest(smt), TRUE, proof(smt, <<8, 1>>))

\* C5: for every digest d' never passed to mark,
\* validate(tree_digest, False, proof(d')) is true.
C5_NeverMarkedProofValidates ==
    \A d \in Digests \ marked :
        validate(DUMMY_HASHES_POOL, SparseMerkleTree_tree_digest(smt), FALSE, proof(smt, d))

(***************************************************************************)
(* Properties of held dense proofs (specification SpecProofLeaf)           *)
(***************************************************************************)
\* the chain validate_proof replays for payload data and proof leaf_proof
replayed_digest(data, leaf_proof) ==
    replay(leaf_proof.hash_alg, hash(leaf_proof.hash_alg, data),
           leaf_proof.hashes, leaf_proof.directions, 1)

\* C11: validate_proof answers a mismatched proof with false: when the
\* digest embedded in the held proof differs from the tree_digest argument
\* (the proof is older than a later add_node) it returns false and has
\* called the hash function zero times, and whenever the replayed chain does
\* not end in tree_digest it returns false; checked for the held proof and
\* for each proof that differs from it in one entry, with every payload.
C11_MismatchedProofIsFalse ==
    held.kind = "LeafProof" =>
        \A t \in Trees, data \in Data, leaf_proof \in {held.proof} \cup Tampered(held.proof) :
            LET td == MerkleTree_tree_digest(mt[t])
                run == validate_proof_run(td, data, leaf_proof)
            IN  /\ leaf_proof.tree_digest # td => ~run.ret /\ run.hash_calls = 0
                /\ replayed_digest(data, leaf_proof) # td => ~run.ret

\* C11 witness: the held proof was made for the only leaf of a one-leaf
\* tree, a second leaf was added since, and the proof is refused against
\* the refreshed digest although it still replays to the digest it embeds
C11_Witness ==
    /\ held.kind = "LeafProof"
    /\ held.proof.hashes = <<>>
    /\ Len(mt[held.tree]._leaves) = 2
    /\ held.proof.tree_digest # MerkleTree_tree_digest(mt[held.tree])
    /\ replayed_digest(leaf_data(held.tree, held.leaf_id), held.proof) = held.proof.tree_digest
    /\ ~validate_proof(MerkleTree_tree_digest(mt[held.tree]),
                       leaf_data(held.tree, held.leaf_id), held.proof)

\* C12: proof_leaf(leaf_id) raises, hands the caller no proof and leaves
\* the tree as it was when leaf_id < 0 or leaf_id >= number of leaves (on
\* an empty tree: for every leaf_id); for 0 <= leaf_id < number of leaves
\* it raises nothing and hands the caller the proof of that leaf, the tree
\* again being left as it was.
C12_ProofLeafRange ==
    [][lastCall'.op = "proof_leaf" =>
          LET t == lastCall'.tree
              leaf_id == lastCall'.arg
          IN  /\ mt' = mt
              /\ IF leaf_id < 0 \/ leaf_id >= Len(mt[t]._leaves)
                 THEN lastCall'.exc # NoExc /\ held' = held
                 ELSE /\ lastCall'.exc = NoExc
                      /\ held'.kind = "LeafProof"
                      /\ held'.tree = t
                      /\ held'.leaf_id = leaf_id
                      /\ held'.proof.tree_digest = MerkleTree_tree_digest(mt[t])]_vars

\* C12 witness: the caller holds the proof of leaf 1 of a two-leaf tree and
\* its latest request, for a leaf past the last one, raised
C12_Witness ==
    /\ lastCall.op = "proof_leaf"
    /\ lastCall.arg >= Len(mt[lastCall.tree]._leaves)
    /\ lastCall.exc = "RuntimeError"
    /\ Len(mt[lastCall.tree]._leaves) = 2
    /\ held.kind = "LeafProof"
    /\ held.leaf_id = 1

(***************************************************************************)
(* More properties of the sparse tree (specification SpecSparse)           *)
(***************************************************************************)
\* C13: marking is idempotent: mark(d) for a digest d that was marked
\* before raises nothing and leaves tree_digest, the answer of is_marked
\* for every digest and the proof of every digest what they were.
C13_MarkIsIdempotent ==
    \A d \in marked :
        LET again == mark(smt, DUMMY_HASHES_POOL, d)
        IN  /\ again.exc = NoExc
            /\ SparseMerkleTree_tree_digest(again.self) = SparseMerkleTree_tree_digest(smt)
            /\ \A e \in Digests :
                   /\ is_marked(again.self, e) = is_marked(smt, e)
                   /\ proof(again.self, e) = proof(smt, e)

\* C13 witness: two digests on different paths are the only ones ever
\* marked, the latest call marked one of them over again (the tree digest
\* is what it was before that call)
C13_Witness ==
    /\ marked = {<<8, 1>>, <<12, 0>>}
    /\ lastCall.op = "mark"
    /\ lastCall.exc = NoExc
    /\ lastCall.before = SparseMerkleTree_tree_digest(smt)

\* C14: on a sparse tree just constructed, proof(d) has no hashes and no
\* directions and is_marked(d) is false for every digest d, and tree_digest
\* is the default digest cached for an empty subtree of the root's height.
C14_FreshSparseTree ==
    lastCall = NoCall =>
        /\ \A d \in Digests :
               /\ proof(smt, d).hashes = <<>>
               /\ proof(smt, d).directions = <<>>
               /\ ~is_marked(smt, d)
        /\ SparseMerkleTree_tree_digest(smt)
               = _get_dummy_hashes(DUMMY_HASHES_POOL, smt._hash_alg)[smt.heap[smt._root].height + 1]

\* C14 witness: the tree was just constructed, its root stands 8 levels
\* above the leaves and has no children
C14_Witness ==
    /\ lastCall = NoCall
    /\ marked = {}
    /\ smt.heap[smt._root].height = 8 * BlockSize
    /\ is_leaf(smt.heap, smt._root)
    /\ proof(smt, <<15, 15>>).hashes = <<>>

(***************************************************************************)
(* Mutations that raise (specification SpecSparseAnyDigest)                *)
(***************************************************************************)
\* C15: every mutation (add_node on a dense tree, mark on the sparse tree)
\* either completes or raises with the tree exactly as it was before the
\* call, whatever the argument, a digest of more bits than the tree is deep
\* included.
C15_RaisingMutationChangesNothing ==
    [][(lastCall'.op \in {"add_node", "mark"} /\ lastCall'.exc # NoExc)
          => (mt' = mt /\ smt' = smt)]_vars

(***************************************************************************)
(* Held proofs of both trees (specification SpecSnapshot)                  *)
(***************************************************************************)
\* the proof the caller holds still validates against the digest the tree
\* had when the proof was handed out
held_validates_as_issued ==
    CASE held.kind = "LeafProof" ->
             validate_proof(held.proof.tree_digest, leaf_data(held.tree, held.leaf_id),
                            held.proof)
      [] held.kind = "SparseMerkleMarkProof" ->
             validate(DUMMY_HASHES_POOL, held.tree_digest, held.is_marked, held.proof)
      [] OTHER -> TRUE

\* C16: a proof returned by MerkleTree.proof_leaf or SparseMerkleTree.proof
\* is a snapshot: no later add_node or mark changes the hashes, the
\* directions or the embedded tree digest of the proof a caller holds, which
\* therefore goes on validating against the digest of the time it was made.
C16_ProofIsSnapshot ==
    /\ [][lastCall'.op \in {"add_node", "mark"} => held' = held]_vars
    /\ [](held_validates_as_issued)

\* C16 witness: the caller holds the proof of the only leaf of a one-leaf
\* dense tree, which still has no entries and embeds the one-leaf digest,
\* and since then a second leaf was added and a digest was marked
C16_Witness ==
    /\ held.kind = "LeafProof"
    /\ held.proof.hashes = <<>>
    /\ held.proof.tree_digest = hash(sha256, leaf_data(held.tree, 0))
    /\ Len(mt[held.tree]._leaves) = 2
    /\ held.proof.tree_digest # MerkleTree_tree_digest(mt[held.tree])
    /\ marked # {}
    /\ lastCall.op = "mark"

(***************************************************************************)
(* Properties of the disjoint set (specification SpecDisjointSet)          *)
(***************************************************************************)
RECURSIVE joined_with(_, _)
\* the elements joined with those of the set S directly or transitively,
\* according to the pairs passed to union
joined_with(S, pairs) ==
    LET T == S \cup {b \in 1..Len(ds._elements) : \E a \in S : {a, b} \in pairs}
    IN  IF T = S THEN S ELSE joined_with(T, pairs)

\* C17: after any sequence of make_set and union calls no union call has
\* raised, and for all elements a and b find(a) = find(b) exactly when a
\* and b were joined, directly or transitively, by union calls.
C17_UnionJoinsSets ==
    /\ lastCall.op = "union" => lastCall.exc = NoExc
    /\ \A a \in 1..Len(ds._elements), b \in 1..Len(ds._elements) :
           (find(ds, a).ret = find(ds, b).ret) <=> (b \in joined_with({a}, joined))

(***************************************************************************)
(* Properties of the pattern search (specification SpecDueling)            *)
(***************************************************************************)
\* the indices i (from 0) with text[i : i + len(pattern)] == pattern
occurrences ==
    {i \in 0..(Len(text) - Len(pattern)) : SubSeq(text, i + 1, i + Len(pattern)) = pattern}

\* C18: search_pattern_in_text(text, pattern) returns, in ascending order,
\* exactly the indices at which the pattern occurs in the text, those after
\* the last mismatching position included, and no other index.
C18_SearchFindsEveryOccurrence ==
    lastCall.op = "search_pattern_in_text" =>
        /\ \A i \in 1..(Len(matches) - 1) : matches[i] < matches[i + 1]
        /\ {matches[i] : i \in 1..Len(matches)} = occurrences

(***************************************************************************)
(* Shape of the dense tree (specification Spec)                            *)
(***************************************************************************)
RECURSIVE ancestors(_, _)
\* the nodes above node, following the parent links, nearest first
ancestors(heap, node) ==
    IF heap[node].parent = NoNode THEN <<>>
    ELSE <<heap[node].parent>> \o ancestors(heap, heap[node].parent)

\* the parent and child links of the tree self agree
links_agree(self) ==
    /\ ~is_empty(self) => self.heap[self._root].parent = NoNode
    /\ \A n \in 1..Len(self.heap) :
           /\ n # self._root =>
                  /\ self.heap[n].parent # NoNode
                  /\ n \in {self.heap[self.heap[n].parent].left,
                            self.heap[self.heap[n].parent].right}
           /\ \A c \in {self.heap[n].left, self.heap[n].right} \ {NoNode} :
                  self.heap[c].parent = n

\* C19: in every dense tree state add_node calls reach, the root is the
\* only node without a parent and every other node is the left or the right
\* child of its parent; so the upward walk of proof_leaf(i) ends at the root
\* and the proof has one entry per ancestor of leaf i; the proof of leaf 0
\* of a tree of 2^k + 1 leaves has k + 1 entries, all RIGHT.
C19_LinksAgreeProofReachesRoot ==
    \A t \in Trees :
        /\ links_agree(mt[t])
        /\ \A i \in LeafIds(t) :
               LET up == ancestors(mt[t].heap, mt[t]._leaves[i + 1])
                   p == proof_leaf(mt[t], i)
               IN  /\ p.exc = NoExc
                   /\ (IF up = <<>> THEN mt[t]._leaves[i + 1] ELSE up[Len(up)]) = mt[t]._root
                   /\ Len(p.proof.hashes) = Len(up)
                   /\ Len(p.proof.directions) = Len(up)
        /\ \A k \in 0..MaxCalls :
               Len(mt[t]._leaves) = 2 ^ k + 1 =>
                   proof_leaf(mt[t], 0).proof.directions = [j \in 1..(k + 1) |-> RIGHT]

\* C19 witness: a tree of 2^0 + 1 leaves, whose leaf 0 has the root as its
\* only ancestor and a proof of one entry, RIGHT
C19_Witness ==
    /\ Len(mt[1]._leaves) = 2
    /\ ancestors(mt[1].heap, mt[1]._leaves[1]) = <<mt[1]._root>>
    /\ proof_leaf(mt[1], 0).proof.directions = <<RIGHT>>
    /\ Len(proof_leaf(mt[1], 0).proof.hashes) = 1

\* C20: in every dense tree state add_node calls reach, the left subtree of
\* every internal node is full (its leaf count is 2^height), so the descent
\* of _find_split_node from the root along right children ends at a full
\* node, without raising and without stepping onto a missing child.
C20_LeftSubtreesFullDescentEnds ==
    \A t \in Trees :
        /\ \A n \in 1..Len(mt[t].heap) :
               mt[t].heap[n].left # NoNode =>
                   /\ is_full(mt[t].heap, mt[t].heap[n].left).exc = NoExc
                   /\ is_full(mt[t].heap, mt[t].heap[n].left).val
        /\ ~is_empty(mt[t]) =>
               LET f == _find_split_node(mt[t].heap, mt[t]._root)
               IN  /\ f.exc = NoExc
                   /\ f.node # NoNode
                   /\ is_full(mt[t].heap, f.node).val

(***************************************************************************)
(* Node fields of the dense tree (specification Spec)                      *)
(***************************************************************************)
\* C21: in every dense tree state add_node calls reach, every leaf has
\* height 0 and leaf count 1, every internal node has the integer
\* max(left.height, right.height) + 1 as height and the integer
\* left.leaves_counter + right.leaves_counter as leaf count, and the root's
\* leaf count is the length of the leaf list.
C21_HeightsAndLeafCounts ==
    \A t \in Trees :
        LET heap == mt[t].heap
        IN  /\ \A n \in 1..Len(heap) :
                   IF heap[n].left = NoNode /\ heap[n].right = NoNode
                   THEN heap[n].height = PyInt(0) /\ heap[n].leaves_counter = PyInt(1)
                   ELSE /\ heap[n].height
                             = PyInt(Max(heap[heap[n].left].height.val,
                                         heap[heap[n].right].height.val) + 1)
                        /\ heap[n].leaves_counter
                             = PyInt(heap[heap[n].left].leaves_counter.val
                                       + heap[heap[n].right].leaves_counter.val)
            /\ ~is_empty(mt[t]) =>
                   heap[mt[t]._root].leaves_counter = PyInt(Len(mt[t]._leaves))

RECURSIVE leaves_in_order(_, _)
\* the leaves of the subtree of node, from left to right
leaves_in_order(heap, node) ==
    IF heap[node].left = NoNode /\ heap[node].right = NoNode THEN <<node>>
    ELSE (IF heap[node].left = NoNode THEN <<>> ELSE leaves_in_order(heap, heap[node].left))
         \o (IF heap[node].right = NoNode THEN <<>> ELSE leaves_in_order(heap, heap[node].right))

RECURSIVE subtree(_, _)
\* the nodes reachable from node along the child links
subtree(heap, node) ==
    IF node = NoNode THEN {}
    ELSE {node} \cup subtree(heap, heap[node].left) \cup subtree(heap, heap[node].right)

\* C22: in every dense tree state add_node calls reach, the digest of every
\* leaf is HashFunction(its data), every internal node reachable from the
\* root has the data left.digest ++ right.digest of its current children
\* and the digest HashFunction(data), and the leaves under the root are,
\* from left to right, the inserted leaves in insertion order with the
\* payloads they were inserted with: tree_digest commits to all of them.
C22_DigestsCommitToLeaves ==
    \A t \in Trees :
        LET heap == mt[t].heap
        IN  /\ \A n \in subtree(heap, mt[t]._root) :
                   /\ heap[n].data_hash = hash(heap[n].hash_alg, heap[n].data)
                   /\ ~(heap[n].left = NoNode /\ heap[n].right = NoNode) =>
                          heap[n].data = heap[heap[n].left].data_hash
                                           \o heap[heap[n].right].data_hash
            /\ \A i \in LeafIds(t) :
                   heap[mt[t]._leaves[i + 1]].data_hash
                       = hash(mt[t]._hash_alg, heap[mt[t]._leaves[i + 1]].data)
            /\ ~is_empty(mt[t]) => leaves_in_order(heap, mt[t]._root) = mt[t]._leaves
            /\ \A i \in LeafIds(t) : heap[mt[t]._leaves[i + 1]].data = leaf_data(t, i)

\* C22 witness: a tree of two leaves with different payloads, whose root
\* was rehashed by update_child (its height is the tuple update_child
\* stores) and holds the digest of the two leaf digests in order
C22_Witness ==
    /\ fed[1] = <<b1, b0>>
    /\ mt[1].heap[mt[1]._root].height.type = "tuple"
    /\ mt[1].heap[mt[1]._root].data = hash(sha256, b1) \o hash(sha256, b0)
    /\ MerkleTree_tree_digest(mt[1]) = hash(sha256, hash(sha256, b1) \o hash(sha256, b0))

lowest_node(self, digest) ==
    LET steps == _tree_navigator(self.heap, self._root, digest_bin(self._hash_size, digest), 1)
    IN  child(self.heap, steps[Len(steps)].scanner, steps[Len(steps)].direction)

\* C24: after every completed mark (and on the tree just constructed) no
\* materialized node has an unset digest: a node with children holds
\* HashFunction(left.digest ++ right.digest), a childless node of height
\* h >= 1 holds the cached default digest of height h, and a node of height
\* 0 holds the "exists" sentinel if a mark ended at it and the
\* "does-not-exist" sentinel otherwise.
C24_EveryDigestIsSet ==
    lastCall.exc = NoExc =>
        \A n \in DOMAIN smt.heap :
            LET node == smt.heap[n]
            IN  /\ node.data # None
                /\ IF ~is_leaf(smt.heap, n)
                   THEN node.data = hash(smt._hash_alg,
                                         smt.heap[node.left].data \o smt.heap[node.right].data)
                   ELSE IF node.height >= 1
                   THEN node.data = DUMMY_HASHES_POOL[smt._hash_alg][node.height + 1]
                   ELSE node.data = (IF \E d \in marked : lowest_node(smt, d) = n
                                     THEN EXISTING_LEAF_DATA
                                     ELSE NON_EXISTING_LEAF_DATA)

\* C24 witness: two marks that share the first level of their paths have
\* completed; the root has children, a childless node of height 5 is
\* materialized beside the second path, and one of the two height-0
\* siblings at the end of the first path is marked and the other is not
C24_Witness ==
    /\ marked = {<<8, 1>>, <<12, 0>>}
    /\ lastCall.op = "mark"
    /\ lastCall.exc = NoExc
    /\ ~is_leaf(smt.heap, smt._root)
    /\ \E n \in DOMAIN smt.heap : is_leaf(smt.heap, n) /\ smt.heap[n].height = 5
    /\ \E n \in DOMAIN smt.heap :
           /\ smt.heap[n].height = 1
           /\ smt.heap[smt.heap[n].left].data # smt.heap[smt.heap[n].right].data

\* the nodes the path of digest runs through, the node it ends at included
path_nodes(self, digest) ==
    LET steps == _tree_navigator(self.heap, self._root, digest_bin(self._hash_size, digest), 1)
    IN  {steps[k].scanner : k \in 1..Len(steps)} \cup ({lowest_node(self, digest)} \ {NoNode})

\* C25: in every sparse tree state mark calls reach, a materialized node,
\* the root included, has is_dummy true exactly when no mark has passed
\* through it, that is when no leaf of its subtree was ever marked.
C25_DummyUntilMarkedThrough ==
    \A n \in DOMAIN smt.heap :
        smt.heap[n].is_dummy <=> ~(\E d \in marked : n \in path_nodes(smt, d))

\* the height of the node at which the path of digest stops: 0 when the path
\* runs down to a materialized node of height 0, else the height of the
\* childless node it runs into
path_end_height(self, digest) ==
    LET steps == _tree_navigator(self.heap, self._root, digest_bin(self._hash_size, digest), 1)
    IN  IF is_leaf(self.heap, steps[Len(steps)].scanner)
        THEN self.heap[steps[Len(steps)].scanner].height
        ELSE self.heap[steps[Len(steps)].scanner].height - 1

\* C26: in a sparse tree of depth B, the proof of a marked digest has
\* exactly B entries; the proof of a digest whose path ends at a childless
\* node of height h >= 1 has exactly B - h entries, fewer than B; hashes and
\* directions have the same length; and the entries are ordered
\* leaf-to-root, entry k being the digest and the direction of the sibling
\* of the path node k levels below the highest node the proof covers.
C26_ProofLengthAndOrder ==
    \A d \in Digests :
        LET p == proof(smt, d)
            L == Len(p.hashes)
            h == path_end_height(smt, d)
            steps == _tree_navigator(smt.heap, smt._root, digest_bin(smt._hash_size, d), 1)
        IN  /\ Len(p.directions) = L
            /\ d \in marked => L = smt._hash_size
            /\ L = smt._hash_size - h
            /\ h >= 1 => L < smt._hash_size
            /\ \A j \in 1..L :
                   LET on_path == child(smt.heap, steps[j].scanner, steps[j].direction)
                       sibling == child_sibling(smt.heap, steps[j].scanner, on_path).node
                   IN  /\ smt.heap[on_path].height = smt._hash_size - j
                       /\ p.hashes[L + 1 - j] = smt.heap[sibling].data
                       /\ p.directions[L + 1 - j] = opposite(steps[j].direction)

\* C26 witness: one digest is marked and its proof has 8 entries, of which
\* the first is the unmarked height-0 sibling and the last a default digest
\* of height 7; the path of another digest ends at the childless node of
\* height 7 under the root and its proof has the single entry 8 - 7
C26_Witness ==
    /\ marked = {<<8, 1>>}
    /\ Len(proof(smt, <<8, 1>>).hashes) = 8
    /\ proof(smt, <<8, 1>>).hashes[1] = NON_EXISTING_LEAF_DATA
    /\ proof(smt, <<8, 1>>).hashes[8] = DUMMY_HASHES_POOL[sha256][8]
    /\ path_end_height(smt, <<0, 0>>) = 7
    /\ Len(proof(smt, <<0, 0>>).hashes) = 1
    /\ proof(smt, <<0, 0>>).directions = <<RIGHT>>

(***************************************************************************)
(* The pool of dummy hashes (specification SpecPool)                       *)
(***************************************************************************)
\* table is what _generate_dummy_hashes builds for hash_alg
is_dummy_hashes_of(table, hash_alg) ==
    /\ Len(table) = get_hash_size(hash_alg) + 1
    /\ table[1] = NON_EXISTING_LEAF_DATA
    /\ \A h \in 1..get_hash_size(hash_alg) : table[h + 1] = hash(hash_alg, table[h] \o table[h])

\* C27: for every hash function the cached dummy-hash table has one entry
\* per height 0..B, entry 0 being the "does-not-exist" sentinel and entry h
\* HashFunction(entry(h-1) ++ entry(h-1)); once created, a table is never
\* modified or replaced by a tree construction, mark, is_marked, proof or
\* validate call; and every sparse tree of the hash function reads that
\* table: the tree in use has a table, and its childless nodes of height
\* h >= 1 hold entry h of it, whichever tree had the table created.
C27_DummyHashesNeverChange ==
    /\ [](\A a \in DOMAIN DUMMY_HASHES_POOL : is_dummy_hashes_of(DUMMY_HASHES_POOL[a], a))
    /\ []( /\ smt._hash_alg \in DOMAIN DUMMY_HASHES_POOL
           /\ \A n \in DOMAIN smt.heap :
                  (is_leaf(smt.heap, n) /\ smt.heap[n].height >= 1) =>
                      smt.heap[n].data = DUMMY_HASHES_POOL[smt._hash_alg][smt.heap[n].height + 1])
    /\ [][\A a \in DOMAIN DUMMY_HASHES_POOL :
              /\ a \in DOMAIN DUMMY_HASHES_POOL'
              /\ DUMMY_HASHES_POOL'[a] = DUMMY_HASHES_POOL[a]]_vars

\* C27 witness: the pool holds the tables of both hash functions, the tree
\* in use is a second-generation md5 tree in which a digest is marked, and
\* the latest call was a validate
C27_Witness ==
    /\ DOMAIN DUMMY_HASHES_POOL = HashAlgs
    /\ DUMMY_HASHES_POOL[md5] # DUMMY_HASHES_POOL[sha256]
    /\ smt._hash_alg = md5
    /\ marked # {}
    /\ lastCall.op = "validate"
    /\ lastCall.ret = 1

(***************************************************************************)
(* Threads populating the pool (specification SpecThreads)                 *)
(***************************************************************************)
\* C28: under any interleaving of threads that call _get_dummy_hashes with
\* the same hash function, the table is generated and stored exactly once
\* (at most one thread is ever between the membership test and the
\* assignment, and the pool is assigned at most once), and no thread
\* observes a missing or partially built table: what a call returns is the
\* complete table.
C28_PoolPopulatedOnce ==
    /\ Cardinality({t \in Threads : pc[t] = "generate"}) <= 1
    /\ stores <= 1
    /\ \A t \in Threads :
           /\ pc[t] # "KeyError"
           /\ pc[t] = "done" => returned[t] = _generate_dummy_hashes(sha256)
    /\ sha256 \in DOMAIN DUMMY_HASHES_POOL =>
           DUMMY_HASHES_POOL[sha256] = _generate_dummy_hashes(sha256)

(***************************************************************************)
(* Calls that only read (specification SpecReads)                          *)
(***************************************************************************)
\* C29: read operations leave the tree as it was: is_marked, proof and
\* validate materialize no node of the sparse tree and change no node's
\* digest, children or is_dummy flag; proof_leaf and validate_proof change
\* no node, link or leaf-list entry of the dense tree; tree_digest is the
\* same after each of them as before.
C29_ReadsChangeNothing ==
    [][/\ lastCall'.op \in {"is_marked", "proof", "validate"} =>
              /\ DOMAIN smt'.heap = DOMAIN smt.heap
              /\ smt' = smt
              /\ SparseMerkleTree_tree_digest(smt') = lastCall'.before
       /\ lastCall'.op \in {"proof_leaf", "validate_proof"} =>
              /\ mt' = mt
              /\ MerkleTree_tree_digest(mt'[lastCall'.tree]) = lastCall'.before]_vars

\* C29 witness: on a sparse tree with a marked digest, the latest call was
\* an is_marked of a digest whose path leaves the materialized tree (it
\* answered False), and the tree digest is what it was before that call;
\* the dense tree has two leaves and the caller holds a proof of it
C29_Witness ==
    /\ marked = {<<8, 1>>}
    /\ lastCall.op = "is_marked"
    /\ lastCall.arg = <<12, 0>>
    /\ lastCall.ret = 0
    /\ lowest_node(smt, <<12, 0>>) = NoNode
    /\ lastCall.before = SparseMerkleTree_tree_digest(smt)
    /\ Len(mt[ProofTree]._leaves) = 2
    /\ held.kind = "LeafProof"

(***************************************************************************)
(* Order of the marks (specification SpecSparse)                           *)
(***************************************************************************)
\* the tree mark(first) and then mark(second) leave, starting from self
marked_in_order(self, first, second) ==
    mark(mark(self, DUMMY_HASHES_POOL, first).self, DUMMY_HASHES_POOL, second).self

\* the digests marked in either order: two that end at the same leaf, two
\* that part below the root's right child, and two that part at the root
OrderDigests == {<<0, 1>>, <<0, 2>>, <<8, 1>>, <<12, 0>>}

\* C30: the sparse tree's digest depends on the set of marked digests only,
\* not on the order of the mark calls: from every tree state, marking d1
\* then d2 yields the same tree_digest, the same is_marked answers and the
\* same proofs as marking d2 then d1.
C30_MarkOrderIsIrrelevant ==
    \A d1 \in OrderDigests, d2 \in OrderDigests :
        int16(d1) < int16(d2) =>
            LET a == marked_in_order(smt, d1, d2)
                b == marked_in_order(smt, d2, d1)
            IN  /\ SparseMerkleTree_tree_digest(a) = SparseMerkleTree_tree_digest(b)
                /\ \A e \in Digests :
                       /\ is_marked(a, e) = is_marked(b, e)
                       /\ proof(a, e) = proof(b, e)

\* C30 witness: in a tree with one marked digest, marking two more digests
\* in either order marks both, changes the tree digest, and the two orders
\* pass through different intermediate digests
C30_Witness ==
    /\ marked = {<<15, 15>>}
    /\ is_marked(marked_in_order(smt, <<8, 1>>, <<12, 0>>), <<8, 1>>)
    /\ is_marked(marked_in_order(smt, <<12, 0>>, <<8, 1>>), <<8, 1>>)
    /\ is_marked(marked_in_order(smt, <<12, 0>>, <<8, 1>>), <<12, 0>>)
    /\ SparseMerkleTree_tree_digest(marked_in_order(smt, <<8, 1>>, <<12, 0>>))
           # SparseMerkleTree_tree_digest(smt)
    /\ SparseMerkleTree_tree_digest(mark(smt, DUMMY_HASHES_POOL, <<8, 1>>).self)
           # SparseMerkleTree_tree_digest(mark(smt, DUMMY_HASHES_POOL, <<12, 0>>).self)

====
